---- MODULE Spec2Model ----
(***************************************************************************)
(* The research loop of ollama_deep_researcher (graph.py): the LangGraph   *)
(* state machine generate_query -> web_research -> summarize_sources ->    *)
(* reflect_on_summary -> route_research -> (web_research | finalize).      *)
(*                                                                         *)
(* Python strings are sequences of one-character strings, and every other  *)
(* Python value is a tagged record (None, Str, Num, ...), so that string   *)
(* operations (split, strip, startswith, concatenation, json.loads) are    *)
(* computed the way the code computes them.                                *)
(***************************************************************************)
EXTENDS Integers, Sequences, FiniteSets, TLC

(***************************************************************************)
(* Bounds of the model.                                                    *)
(***************************************************************************)
\* max_web_research_loops is drawn from -MaxNegLoops .. MaxLoops
MaxLoops == 1
MaxNegLoops == 1

(***************************************************************************)
(* Python values.                                                          *)
(***************************************************************************)
None == [t |-> "None"]
Str(s) == [t |-> "str", v |-> s]
Num(digits) == [t |-> "num", v |-> digits]
PyTrue == [t |-> "true"]
PyFalse == [t |-> "false"]
PyList(items) == [t |-> "list", items |-> items]
PyDict(d) == [t |-> "dict", d |-> d]
EmptyDict == <<>>

IsStr(x) == x.t = "str"

\* Python truthiness (bool(x)) of a value
Truthy(x) ==
    CASE x.t = "None" -> FALSE
      [] x.t = "str" -> Len(x.v) > 0
      [] x.t = "num" -> \E i \in 1..Len(x.v) : x.v[i] \notin {"0", "-"}
      [] x.t = "true" -> TRUE
      [] x.t = "false" -> FALSE
      [] x.t = "list" -> Len(x.items) > 0
      [] x.t = "dict" -> DOMAIN x.d # {}

\* dict.get(key): the value, or None when the key is absent
DictGet(d, k) == IF k \in DOMAIN d THEN d[k] ELSE None

(***************************************************************************)
(* String helpers (str methods of Python).                                 *)
(***************************************************************************)
Whitespace == {" ", "\n", "\t", "\r"}
Digits == {"0", "1", "2", "3", "4", "5", "6", "7", "8", "9"}

RECURSIVE Repeat(_, _)
Repeat(c, n) == IF n <= 0 THEN <<>> ELSE <<c>> \o Repeat(c, n - 1)

\* s.startswith(p)
StartsWith(s, p) == Len(s) >= Len(p) /\ SubSeq(s, 1, Len(p)) = p

\* s[i:].startswith(p), 1-indexed
StartsWithAt(s, i, p) ==
    i + Len(p) - 1 <= Len(s) /\ SubSeq(s, i, i + Len(p) - 1) = p

\* s.find(p): the first 1-indexed position of p in s, or 0 when absent
Find(s, p) ==
    LET hits == {i \in 1..Len(s) : StartsWithAt(s, i, p)}
    IN IF hits = {} THEN 0 ELSE CHOOSE i \in hits : \A j \in hits : i <= j

\* s.strip()
Strip(s) ==
    LET keep == {i \in 1..Len(s) : s[i] \notin Whitespace}
    IN IF keep = {} THEN <<>>
       ELSE SubSeq(s, CHOOSE i \in keep : \A j \in keep : i <= j,
                      CHOOSE i \in keep : \A j \in keep : i >= j)

\* s.split("\n")
RECURSIVE SplitLines(_)
SplitLines(s) ==
    LET nl == Find(s, <<"\n">>)
    IN IF nl = 0 THEN <<s>>
       ELSE <<SubSeq(s, 1, nl - 1)>> \o SplitLines(SubSeq(s, nl + 1, Len(s)))

\* sep.join(parts)
RECURSIVE Join(_, _)
Join(sep, parts) ==
    IF Len(parts) = 0 THEN <<>>
    ELSE IF Len(parts) = 1 THEN parts[1]
    ELSE parts[1] \o sep \o Join(sep, Tail(parts))

(***************************************************************************)
(* String constants of the program.                                        *)
(***************************************************************************)
FallbackPrefix == <<"T","e","l","l"," ","m","e"," ","m","o","r","e"," ","a","b","o","u","t"," ">>
ErrorFetchingSources == <<"E","r","r","o","r"," ","f","e","t","c","h","i","n","g"," ","s","o","u","r","c","e","s">>
SearchFailedPrefix == <<"S","e","a","r","c","h"," ","f","a","i","l","e","d",":"," ">>
SummaryGenerationFailed == <<"S","u","m","m","a","r","y"," ","g","e","n","e","r","a","t","i","o","n"," ","f","a","i","l","e","d">>
FailedToGenerateSummary == <<"F","a","i","l","e","d"," ","t","o"," ","g","e","n","e","r","a","t","e"," ","s","u","m","m","a","r","y">>
NoSourcesFound == <<"N","o"," ","s","o","u","r","c","e","s"," ","f","o","u","n","d">>
SummaryHeader == <<"#","#"," ","S","u","m","m","a","r","y","\n">>
SourcesHeader == <<"\n","\n"," ","#","#","#"," ","S","o","u","r","c","e","s",":","\n">>
HttpPrefix == <<"h","t","t","p">>
ThinkOpen == <<"<","t","h","i","n","k",">">>
ThinkClose == <<"<","/","t","h","i","n","k",">">>
QueryField == <<"q","u","e","r","y">>
FollowUpQueryField == <<"f","o","l","l","o","w","_","u","p","_","q","u","e","r","y">>
NoneText == <<"N","o","n","e">>

\* has_summary needs len(running_summary) > 50
SummaryMinLen == 50
MAX_TOKENS_PER_SOURCE == 1000
CHARS_PER_TOKEN == 4

(***************************************************************************)
(* json.loads, for the JSON texts the model can return: objects, arrays,   *)
(* strings, integers, null, true, false, with optional whitespace.  The    *)
(* texts of the model hold no backslash escapes, fractions or exponents.   *)
(***************************************************************************)
MinOf(S) == CHOOSE i \in S : \A j \in S : i <= j

\* the first position >= i that holds no whitespace (Len(s) + 1 at the end)
SkipWs(s, i) ==
    LET stop == {j \in i..Len(s) : s[j] \notin Whitespace}
    IN IF stop = {} THEN Len(s) + 1 ELSE MinOf(stop)

ParseFail == [ok |-> FALSE, val |-> None, next |-> 0]
ParseOk(v, n) == [ok |-> TRUE, val |-> v, next |-> n]

\* a string literal opening at s[i] = '"'
ParseStringAt(s, i) ==
    LET close == {j \in (i + 1)..Len(s) : s[j] = "\""}
    IN IF close = {} THEN ParseFail
       ELSE LET j == MinOf(close)
                body == SubSeq(s, i + 1, j - 1)
            IN IF \E k \in 1..Len(body) : body[k] \in {"\n", "\t", "\r"}
               THEN ParseFail
               ELSE ParseOk(Str(body), j + 1)

\* an integer literal at s[i]; a leading zero ends the number
ParseNumberAt(s, i) ==
    LET d0 == IF s[i] = "-" THEN i + 1 ELSE i
        nondigit == {j \in d0..Len(s) : s[j] \notin Digits}
        end == IF nondigit = {} THEN Len(s) + 1 ELSE MinOf(nondigit)
    IN IF end = d0 THEN ParseFail
       ELSE IF s[d0] = "0" THEN ParseOk(Num(SubSeq(s, i, d0)), d0 + 1)
       ELSE ParseOk(Num(SubSeq(s, i, end - 1)), end)

NullText == <<"n","u","l","l">>
TrueText == <<"t","r","u","e">>
FalseText == <<"f","a","l","s","e">>

RECURSIVE ParseValue(_, _)
RECURSIVE ParseMembers(_, _, _)
RECURSIVE ParseElements(_, _, _)

ParseValue(s, i0) ==
    LET i == SkipWs(s, i0)
    IN IF i > Len(s) THEN ParseFail
       ELSE IF s[i] = "\"" THEN ParseStringAt(s, i)
       ELSE IF s[i] = "{" THEN
            LET j == SkipWs(s, i + 1)
            IN IF j <= Len(s) /\ s[j] = "}"
               THEN ParseOk(PyDict(EmptyDict), j + 1)
               ELSE ParseMembers(s, j, EmptyDict)
       ELSE IF s[i] = "[" THEN
            LET j == SkipWs(s, i + 1)
            IN IF j <= Len(s) /\ s[j] = "]"
               THEN ParseOk(PyList(<<>>), j + 1)
               ELSE ParseElements(s, j, <<>>)
       ELSE IF StartsWithAt(s, i, NullText) THEN ParseOk(None, i + 4)
       ELSE IF StartsWithAt(s, i, TrueText) THEN ParseOk(PyTrue, i + 4)
       ELSE IF StartsWithAt(s, i, FalseText) THEN ParseOk(PyFalse, i + 5)
       ELSE IF s[i] \in Digits \cup {"-"} THEN ParseNumberAt(s, i)
       ELSE ParseFail

\* the members of an object, from the first key at s[i]; a repeated key keeps
\* its last value
ParseMembers(s, i, acc) ==
    IF i > Len(s) \/ s[i] # "\"" THEN ParseFail
    ELSE LET k == ParseStringAt(s, i)
         IN IF ~k.ok THEN ParseFail
            ELSE LET c == SkipWs(s, k.next)
                 IN IF c > Len(s) \/ s[c] # ":" THEN ParseFail
                    ELSE LET v == ParseValue(s, c + 1)
                         IN IF ~v.ok THEN ParseFail
                            ELSE LET e == SkipWs(s, v.next)
                                     acc2 == (k.val.v :> v.val) @@ acc
                                 IN IF e > Len(s) THEN ParseFail
                                    ELSE IF s[e] = "}" THEN ParseOk(PyDict(acc2), e + 1)
                                    ELSE IF s[e] = ","
                                         THEN ParseMembers(s, SkipWs(s, e + 1), acc2)
                                    ELSE ParseFail

\* the elements of an array, from the first element at s[i]
ParseElements(s, i, acc) ==
    LET v == ParseValue(s, i)
    IN IF ~v.ok THEN ParseFail
       ELSE LET e == SkipWs(s, v.next)
                acc2 == Append(acc, v.val)
            IN IF e > Len(s) THEN ParseFail
               ELSE IF s[e] = "]" THEN ParseOk(PyList(acc2), e + 1)
               ELSE IF s[e] = "," THEN ParseElements(s, e + 1, acc2)
               ELSE ParseFail

\* json.loads(content): ok = FALSE stands for json.JSONDecodeError
json_loads(content) ==
    LET r == ParseValue(content, 1)
    IN IF r.ok /\ SkipWs(content, r.next) > Len(content)
       THEN [ok |-> TRUE, val |-> r.val]
       ELSE [ok |-> FALSE, val |-> None]

(***************************************************************************)
(* utils.strip_thinking_tokens: removes <think>...</think> blocks.         *)
(***************************************************************************)
RECURSIVE strip_thinking_tokens(_)
strip_thinking_tokens(text) ==
    LET start == Find(text, ThinkOpen)
        close == Find(text, ThinkClose)
    IN IF start = 0 \/ close = 0 \/ close < start THEN text
       ELSE strip_thinking_tokens(
                SubSeq(text, 1, start - 1)
                \o SubSeq(text, close + Len(ThinkClose), Len(text)))

(***************************************************************************)
(* The structured query extractor.  resp is the model's answer to          *)
(* llm.invoke: it raises, or it carries tool_calls and content.  The       *)
(* result is the node's return value, or the exception that leaves it.     *)
(***************************************************************************)
Returned(q) == [raised |-> "none", search_query |-> q]
Raised(e) == [raised |-> e, search_query |-> None]

generate_search_query_with_structured_output(configurable, resp, fallback_query, tool_query_field, json_query_field) ==
    IF resp.raises THEN Raised("ModelError")
    ELSE IF configurable.use_tool_calling THEN
        IF Len(resp.tool_calls) = 0 THEN Returned(fallback_query)
        ELSE IF "args" \notin DOMAIN resp.tool_calls[1]
             THEN Returned(fallback_query)
        ELSE Returned(DictGet(resp.tool_calls[1].args, tool_query_field))
    ELSE
        LET parsed == json_loads(resp.content)
        IN IF ~parsed.ok THEN Returned(fallback_query)
           ELSE IF parsed.val.t # "dict" THEN Raised("AttributeError")
           ELSE LET search_query == DictGet(parsed.val.d, json_query_field)
                IN IF ~Truthy(search_query) THEN Returned(fallback_query)
                   ELSE Returned(search_query)

(***************************************************************************)
(* Configuration (configuration.py).  A run's config carries the raw       *)
(* values of the fields; the Configuration constructor validates them: the *)
(* search_api must be one of the Literal's four names.                     *)
(***************************************************************************)
SearchAPI == {"perplexity", "tavily", "duckduckgo", "searxng"}

\* ok = FALSE stands for pydantic's ValidationError
Configuration_from_runnable_config(config) ==
    IF config.search_api \in SearchAPI
    THEN [ok |-> TRUE, value |-> config]
    ELSE [ok |-> FALSE, value |-> config]

\* utils.get_config_value: the string itself, or the value of an Enum member
get_config_value(value) == value

(***************************************************************************)
(* The source aggregator (utils.py).                                       *)
(***************************************************************************)
\* mutant: one bullet line "* title : url" per result
format_sources_Titles(search_results) ==
    Join(<<"\n">>,
         [i \in 1..Len(search_results) |->
             <<"*", " ">> \o search_results[i].title \o <<" ", ":", " ">>
             \o search_results[i].url])

\* the urls of the hits, one line per result, in the backend's order
format_sources(search_results) ==
    Join(<<"\n">>, [i \in 1..Len(search_results) |-> search_results[i].url])

\* one block per hit with its url and the content cut to the character budget
deduplicate_and_format_sources(search_results, max_tokens_per_source, fetch_full_page) ==
    LET budget == max_tokens_per_source * CHARS_PER_TOKEN
        Block(h) == <<"U","R","L",":"," ">> \o h.url \o <<"\n">>
                    \o (IF Len(h.content) > budget
                        THEN SubSeq(h.content, 1, budget)
                        ELSE h.content)
    IN Join(<<"\n">>, [i \in 1..Len(search_results) |-> Block(search_results[i])])

(***************************************************************************)
(* The nodes of the graph.  Each takes the state, the run's config and the *)
(* answer of the external call it makes, and yields the state update it    *)
(* returns, or the exception that leaves it (raised # "none").             *)
(***************************************************************************)
FallbackQuery(state) == Str(FallbackPrefix \o state.research_topic)

generate_query(state, config, resp) ==
    LET configurable == Configuration_from_runnable_config(config)
    IN IF ~configurable.ok THEN Raised("ValidationError")
       ELSE generate_search_query_with_structured_output(
                configurable.value, resp, FallbackQuery(state),
                QueryField, QueryField)

WebResearchUpdate(sources, count, results) ==
    [raised |-> "none",
     sources_gathered |-> <<sources>>,
     research_loop_count |-> count,
     web_research_results |-> <<results>>]

\* mutant: the except branch forgets to count the iteration
WebResearchError_NoIncrement(state, msg) ==
    WebResearchUpdate(ErrorFetchingSources,
                      state.research_loop_count,
                      SearchFailedPrefix \o msg)

\* mutant: no except branch, the backend's error leaves the node
WebResearchError_Propagates(state, msg) ==
    [raised |-> "BackendError", sources_gathered |-> <<>>,
     research_loop_count |-> state.research_loop_count,
     web_research_results |-> <<>>]

\* mutant: the except branch marks the sources only and leaves the result
\* text empty
WebResearchError_SourcesOnly(state, msg) ==
    WebResearchUpdate(ErrorFetchingSources,
                      state.research_loop_count + 1,
                      <<>>)

\* the except branch of web_research: str(e) is msg
WebResearchError(state, msg) ==
    WebResearchUpdate(ErrorFetchingSources,
                      state.research_loop_count + 1,
                      SearchFailedPrefix \o msg)

UnsupportedSearchAPI == <<"U","n","s","u","p","p","o","r","t","e","d"," ","s","e","a","r","c","h"," ","A","P","I">>

\* outcome is what the selected backend does with the query: it raises with
\* a message, or it returns its hits
web_research(state, config, outcome) ==
    LET configurable == Configuration_from_runnable_config(config)
        search_api == get_config_value(config.search_api)
        fetch_full_page == config.fetch_full_page
    IN IF ~configurable.ok
       THEN [raised |-> "ValidationError", sources_gathered |-> <<>>,
             research_loop_count |-> state.research_loop_count,
             web_research_results |-> <<>>]
       ELSE IF search_api \notin {"tavily", "perplexity", "duckduckgo", "searxng"}
            THEN WebResearchError(state, UnsupportedSearchAPI)
       ELSE IF outcome.raises THEN WebResearchError(state, outcome.msg)
       ELSE WebResearchUpdate(
                format_sources(outcome.results),
                state.research_loop_count + 1,
                deduplicate_and_format_sources(
                    outcome.results, MAX_TOKENS_PER_SOURCE, fetch_full_page))

\* mutant: the except branch always returns the placeholder
SummarizeFallback_Placeholder(state) == Str(SummaryGenerationFailed)

\* mutant: the except branch returns the summary as it is, None included
SummarizeFallback_Keep(state) == state.running_summary

\* the except branch of summarize_sources: state.running_summary or the
\* placeholder
SummarizeFallback(state) ==
    IF Truthy(state.running_summary) THEN state.running_summary
    ELSE Str(SummaryGenerationFailed)

summarize_sources(state, config, resp) ==
    LET configurable == Configuration_from_runnable_config(config)
    IN IF Len(state.web_research_results) = 0
       THEN [raised |-> "none", running_summary |-> SummarizeFallback(state)]
       ELSE IF ~configurable.ok \/ resp.raises
       THEN [raised |-> "none", running_summary |-> SummarizeFallback(state)]
       ELSE [raised |-> "none",
             running_summary |->
                 IF config.strip_thinking_tokens
                 THEN Str(strip_thinking_tokens(resp.content))
                 ELSE Str(resp.content)]

reflect_on_summary(state, config, resp) ==
    LET configurable == Configuration_from_runnable_config(config)
    IN IF ~configurable.ok THEN Raised("ValidationError")
       ELSE generate_search_query_with_structured_output(
                configurable.value, resp, FallbackQuery(state),
                FollowUpQueryField, FollowUpQueryField)

\* the text of f"{value}" for a summary
Format(value) == IF value.t = "None" THEN NoneText ELSE value.v

\* mutant: the loop keeps the stripped line, and compares with the kept ones
RECURSIVE DedupLines_Trimmed(_, _)
DedupLines_Trimmed(lines, unique_sources) ==
    IF Len(lines) = 0 THEN unique_sources
    ELSE LET line == Head(lines)
             seen_sources == {unique_sources[i] : i \in 1..Len(unique_sources)}
         IN IF Len(Strip(line)) > 0 /\ line \notin seen_sources
            THEN DedupLines_Trimmed(Tail(lines),
                                    Append(unique_sources, Strip(line)))
            ELSE DedupLines_Trimmed(Tail(lines), unique_sources)

\* the dedup loop of finalize_summary: the non-blank lines of all entries,
\* each exact line kept at its first occurrence
RECURSIVE DedupLines(_, _)
DedupLines(lines, unique_sources) ==
    IF Len(lines) = 0 THEN unique_sources
    ELSE LET line == Head(lines)
             seen_sources == {unique_sources[i] : i \in 1..Len(unique_sources)}
         IN IF Len(Strip(line)) > 0 /\ line \notin seen_sources
            THEN DedupLines(Tail(lines), Append(unique_sources, line))
            ELSE DedupLines(Tail(lines), unique_sources)

RECURSIVE AllLines(_)
AllLines(sources_gathered) ==
    IF Len(sources_gathered) = 0 THEN <<>>
    ELSE SplitLines(Head(sources_gathered)) \o AllLines(Tail(sources_gathered))

\* mutant: seen_sources is reset for each entry
RECURSIVE UniqueSources_PerEntry(_)
UniqueSources_PerEntry(sources_gathered) ==
    IF Len(sources_gathered) = 0 THEN <<>>
    ELSE DedupLines(SplitLines(Head(sources_gathered)), <<>>)
         \o UniqueSources_PerEntry(Tail(sources_gathered))

UniqueSources(sources_gathered) == DedupLines(AllLines(sources_gathered), <<>>)

\* mutant: the line is tested and kept without strip()
RECURSIVE SourceUrls_Untrimmed(_)
SourceUrls_Untrimmed(unique_sources) ==
    IF Len(unique_sources) = 0 THEN <<>>
    ELSE LET line == Head(unique_sources)
         IN IF StartsWith(line, HttpPrefix)
            THEN <<line>> \o SourceUrls_Untrimmed(Tail(unique_sources))
            ELSE SourceUrls_Untrimmed(Tail(unique_sources))

\* mutant: every line is kept, trimmed, whatever it starts with
SourceUrls_AnyLine(unique_sources) ==
    [k \in 1..Len(unique_sources) |-> Strip(unique_sources[k])]

RECURSIVE SourceUrls(_)
SourceUrls(unique_sources) ==
    IF Len(unique_sources) = 0 THEN <<>>
    ELSE LET line == Head(unique_sources)
         IN IF StartsWith(Strip(line), HttpPrefix)
            THEN <<Strip(line)>> \o SourceUrls(Tail(unique_sources))
            ELSE SourceUrls(Tail(unique_sources))

\* mutant: any non-empty summary counts
HasSummary_NonEmpty(running_summary) == Truthy(running_summary)

\* mutant: a summary of exactly SummaryMinLen characters passes
HasSummary_AtLeast(running_summary) ==
    Truthy(running_summary) /\ Len(running_summary.v) >= SummaryMinLen

HasSummary(running_summary) ==
    Truthy(running_summary) /\ Len(running_summary.v) > SummaryMinLen

\* mutant: the Sources section lists source_urls, not unique_sources
finalize_summary_UrlsOnly(state) ==
    LET unique_sources == UniqueSources(state.sources_gathered)
        source_urls == SourceUrls(unique_sources)
        has_summary == HasSummary(state.running_summary)
        has_sources == Len(source_urls) > 0
        success == has_summary /\ has_sources
        error_message ==
            IF success THEN None
            ELSE IF ~has_summary THEN Str(FailedToGenerateSummary)
            ELSE Str(NoSourcesFound)
        all_sources == Join(<<"\n">>, source_urls)
        formatted_summary ==
            SummaryHeader \o Format(state.running_summary)
            \o SourcesHeader \o all_sources
    IN [running_summary |-> Str(formatted_summary),
        success |-> success,
        sources |-> source_urls,
        error_message |-> error_message]

\* mutant: missing sources are reported before a missing summary
finalize_summary_SourcesFirst(state) ==
    LET unique_sources == UniqueSources(state.sources_gathered)
        source_urls == SourceUrls(unique_sources)
        has_summary == HasSummary(state.running_summary)
        has_sources == Len(source_urls) > 0
        success == has_summary /\ has_sources
        error_message ==
            IF success THEN None
            ELSE IF ~has_sources THEN Str(NoSourcesFound)
            ELSE Str(FailedToGenerateSummary)
        all_sources == Join(<<"\n">>, unique_sources)
        formatted_summary ==
            SummaryHeader \o Format(state.running_summary)
            \o SourcesHeader \o all_sources
    IN [running_summary |-> Str(formatted_summary),
        success |-> success,
        sources |-> source_urls,
        error_message |-> error_message]

finalize_summary(state) ==
    LET unique_sources == UniqueSources(state.sources_gathered)
        source_urls == SourceUrls(unique_sources)
        has_summary == HasSummary(state.running_summary)
        has_sources == Len(source_urls) > 0
        success == has_summary /\ has_sources
        error_message ==
            IF success THEN None
            ELSE IF ~has_summary THEN Str(FailedToGenerateSummary)
            ELSE Str(NoSourcesFound)
        all_sources == Join(<<"\n">>, unique_sources)
        formatted_summary ==
            SummaryHeader \o Format(state.running_summary)
            \o SourcesHeader \o all_sources
    IN [running_summary |-> Str(formatted_summary),
        success |-> success,
        sources |-> source_urls,
        error_message |-> error_message]

\* mutant: the branches of the comparison are swapped
route_research_Inverted(state, config) ==
    IF state.research_loop_count <= config.max_web_research_loops
    THEN [ok |-> TRUE, next |-> "finalize_summary"]
    ELSE [ok |-> TRUE, next |-> "web_research"]

\* mutant: the comparison is strict, the loop runs max times
route_research_Strict(state, config) ==
    IF state.research_loop_count < config.max_web_research_loops
    THEN [ok |-> TRUE, next |-> "web_research"]
    ELSE [ok |-> TRUE, next |-> "finalize_summary"]

\* ok = FALSE: Configuration's validation raised
route_research(state, config) ==
    LET configurable == Configuration_from_runnable_config(config)
    IN IF ~configurable.ok THEN [ok |-> FALSE, next |-> "FAILED"]
       ELSE IF state.research_loop_count <= config.max_web_research_loops
            THEN [ok |-> TRUE, next |-> "web_research"]
            ELSE [ok |-> TRUE, next |-> "finalize_summary"]

(***************************************************************************)
(* The state of one run: the fields of SummaryState and of its output, the *)
(* run's config, the node that runs next, and the record of what ran.      *)
(***************************************************************************)
VARIABLES
    research_topic,         \* SummaryState.research_topic
    search_query,           \* SummaryState.search_query
    web_research_results,   \* SummaryState.web_research_results
    sources_gathered,       \* SummaryState.sources_gathered
    research_loop_count,    \* SummaryState.research_loop_count
    running_summary,        \* SummaryState.running_summary
    success,                \* SummaryStateOutput.success
    sources,                \* SummaryStateOutput.sources
    error_message,          \* SummaryStateOutput.error_message
    config,                 \* the RunnableConfig of the run
    pc,                     \* the node that runs next, "END" or "FAILED"
    raised,                 \* the exception that ended the run, or "none"
    trace,                  \* the nodes that have run, in order
    lastCall,               \* the external call of the node that ran last
    backendCalls,           \* the number of search backend calls made
    backendRaises,          \* the number of those calls that raised
    modelCalls,             \* the number of llm.invoke calls made
    summarized,             \* TRUE once summarize_sources returned a model answer
    backendResults,         \* what each search backend call did, in order
    request,                \* the body of the POST /api/v1/research request
    response,               \* the HTTP response of run_research, or None
    environ,                \* os.environ
    configuration,          \* the result of Configuration.from_runnable_config
    other                   \* the state of a second run of the same graph

vars == <<research_topic, search_query, web_research_results, sources_gathered,
          research_loop_count, running_summary, success, sources,
          error_message, config, pc, raised, trace, lastCall, backendCalls,
          backendRaises, modelCalls, summarized, backendResults, request,
          response, environ, configuration, other>>

\* what belongs to the caller of the graph and to the process, not to the run
outerVars == <<request, response, environ, configuration, other>>

stateVars == <<research_topic, search_query, web_research_results,
               sources_gathered, research_loop_count, running_summary,
               success, sources, error_message>>

State ==
    [research_topic |-> research_topic,
     search_query |-> search_query,
     web_research_results |-> web_research_results,
     sources_gathered |-> sources_gathered,
     research_loop_count |-> research_loop_count,
     running_summary |-> running_summary]

\* mutant: the reducer puts the update in front of the list
operator_add_Prepend(old, update) == update \o old

\* the reducer of the two Annotated[list, operator.add] fields
operator_add(old, update) == old \o update

\* mutant: the routing follows summarize_sources, without a reflection
Edge_SkipReflect(node) ==
    CASE node = "START" -> "generate_query"
      [] node = "generate_query" -> "web_research"
      [] node = "web_research" -> "summarize_sources"
      [] node = "summarize_sources" -> "route_research"
      [] node = "reflect_on_summary" -> "route_research"
      [] node = "finalize_summary" -> "END"

\* mutant: web_research is wired straight to reflect_on_summary
Edge_SkipSummarize(node) ==
    CASE node = "START" -> "generate_query"
      [] node = "generate_query" -> "web_research"
      [] node = "web_research" -> "reflect_on_summary"
      [] node = "summarize_sources" -> "reflect_on_summary"
      [] node = "reflect_on_summary" -> "route_research"
      [] node = "finalize_summary" -> "END"

\* builder.add_edge: the node that follows `node`; the conditional edge
\* after reflect_on_summary is route_research
Edge(node) ==
    CASE node = "START" -> "generate_query"
      [] node = "generate_query" -> "web_research"
      [] node = "web_research" -> "summarize_sources"
      [] node = "summarize_sources" -> "reflect_on_summary"
      [] node = "reflect_on_summary" -> "route_research"
      [] node = "finalize_summary" -> "END"

(***************************************************************************)
(* The inputs of a run.                                                    *)
(***************************************************************************)
Topics == {<<"a","i">>, <<"q","c">>}

Configs ==
    [max_web_research_loops : (0 - MaxNegLoops)..MaxLoops,
     search_api : SearchAPI \cup {"bing"},
     fetch_full_page : {TRUE},
     strip_thinking_tokens : BOOLEAN,
     use_tool_calling : BOOLEAN]

Q1 == <<"q","1">>
ToolName == <<"t","o","o","l">>

ModelRaises == [raises |-> TRUE, tool_calls |-> <<>>, content |-> <<>>]
ToolAnswer(calls) == [raises |-> FALSE, tool_calls |-> calls, content |-> <<>>]
TextAnswer(text) == [raises |-> FALSE, tool_calls |-> <<>>, content |-> text]

\* the text {"<field>": "<value>"}
JsonObject(field, value) ==
    <<"{", "\"">> \o field \o <<"\"", ":", " ", "\"">> \o value \o <<"\"", "}">>

\* what the model can answer to a query request for `field`
QueryResponses(use_tool_calling, field) ==
    IF use_tool_calling
    THEN {ModelRaises,
          ToolAnswer(<<>>),
          ToolAnswer(<<[name |-> ToolName]>>),
          ToolAnswer(<<[name |-> ToolName, args |-> EmptyDict]>>),
          ToolAnswer(<<[name |-> ToolName, args |-> (field :> Str(Q1))]>>)}
    ELSE {ModelRaises,
          TextAnswer(<<"{", "\"", "q">>),
          TextAnswer(<<"{", "}">>),
          TextAnswer(<<"[", "1", "]">>),
          TextAnswer(JsonObject(field, Q1))}

LongSummary == Repeat("x", SummaryMinLen + 1)
ShortSummary == <<"S","h","o","r","t">>

\* what the model can answer to a summary request
SummaryResponses ==
    {ModelRaises,
     TextAnswer(LongSummary),
     TextAnswer(ShortSummary),
     TextAnswer(<<>>),
     TextAnswer(ThinkOpen \o <<"t">> \o ThinkClose \o LongSummary)}

Hit(url) == [url |-> url, title |-> <<"T">>, content |-> <<"c">>]
UrlA == <<"h","t","t","p",":","/","/","a",".","i","o">>
UrlB == <<"h","t","t","p",":","/","/","b",".","i","o">>
UrlC == <<"h","t","t","p",":","/","/","c",".","i","o">>

\* what the search backend can do with a query
BackendOutcomes ==
    {[raises |-> TRUE, msg |-> <<"d","o","w","n">>, results |-> <<>>],
     [raises |-> FALSE, msg |-> <<>>, results |-> <<>>],
     [raises |-> FALSE, msg |-> <<>>, results |-> <<Hit(UrlA)>>],
     [raises |-> FALSE, msg |-> <<>>, results |-> <<Hit(UrlB)>>],
     [raises |-> FALSE, msg |-> <<>>, results |-> <<Hit(UrlC)>>],
     [raises |-> FALSE, msg |-> <<>>, results |-> <<Hit(UrlB), Hit(UrlA)>>]}

NoCall(node) == [node |-> node, kind |-> "none", raises |-> FALSE, resp |-> None]
ModelCall(node, resp) ==
    [node |-> node, kind |-> "model", raises |-> resp.raises, resp |-> resp]
BackendCall(node, outcome, query) ==
    [node |-> node, kind |-> "backend", raises |-> outcome.raises,
     resp |-> outcome, query |-> query]

\* mutant: the backend is asked the fallback query of the topic
DispatchedQuery_Fallback(state) == FallbackQuery(state)

\* the query web_research passes to the search function
DispatchedQuery(state) == state.search_query

Init ==
    /\ research_topic \in Topics
    /\ config \in Configs
    /\ search_query = None
    /\ web_research_results = <<>>
    /\ sources_gathered = <<>>
    /\ research_loop_count = 0
    /\ running_summary = None
    /\ success = FALSE
    /\ sources = <<>>
    /\ error_message = None
    /\ pc = Edge("START")
    /\ raised = "none"
    /\ trace = <<>>
    /\ lastCall = NoCall("START")
    /\ backendCalls = 0
    /\ backendRaises = 0
    /\ modelCalls = 0
    /\ summarized = FALSE
    /\ backendResults = <<>>
    /\ request = None
    /\ response = None
    /\ environ = <<>>
    /\ configuration = None
    /\ other = None

ConfigOk == Configuration_from_runnable_config(config).ok

\* a node raised: the run ends with the exception and no state update
Fail(exception) ==
    /\ pc' = "FAILED"
    /\ raised' = exception
    /\ UNCHANGED stateVars

(***************************************************************************)
(* The steps of the graph (builder.add_node / add_edge).                   *)
(***************************************************************************)
GenerateQuery ==
    /\ pc = "generate_query"
    /\ trace' = Append(trace, "generate_query")
    /\ \E resp \in QueryResponses(config.use_tool_calling, QueryField) :
        LET update == generate_query(State, config, resp)
        IN /\ lastCall' = IF ConfigOk THEN ModelCall("generate_query", resp)
                          ELSE NoCall("generate_query")
           /\ modelCalls' = IF ConfigOk THEN modelCalls + 1 ELSE modelCalls
           /\ IF update.raised # "none" THEN Fail(update.raised)
              ELSE /\ search_query' = update.search_query
                   /\ pc' = Edge("generate_query")
                   /\ UNCHANGED <<research_topic, web_research_results,
                                  sources_gathered, research_loop_count,
                                  running_summary, success, sources,
                                  error_message, raised>>
    /\ UNCHANGED <<config, backendCalls, backendRaises, summarized,
                   backendResults, outerVars>>

\* mutant: the step calls the backend a second time when the first call raises
WebResearch_Retry ==
    /\ pc = "web_research"
    /\ trace' = Append(trace, "web_research")
    /\ \E outcome \in BackendOutcomes :
        LET update == web_research(State, config, outcome)
        IN /\ lastCall' = IF ConfigOk THEN BackendCall("web_research", outcome,
                                           DispatchedQuery(State))
                          ELSE NoCall("web_research")
           /\ backendCalls' = IF ConfigOk
                               THEN (IF outcome.raises THEN backendCalls + 2
                                     ELSE backendCalls + 1)
                               ELSE backendCalls
           /\ backendResults' = IF ConfigOk THEN Append(backendResults, outcome)
                                 ELSE backendResults
           /\ backendRaises' = IF ConfigOk /\ outcome.raises
                               THEN backendRaises + 1 ELSE backendRaises
           /\ IF update.raised # "none" THEN Fail(update.raised)
              ELSE /\ sources_gathered' =
                          operator_add(sources_gathered, update.sources_gathered)
                   /\ research_loop_count' = update.research_loop_count
                   /\ web_research_results' =
                          operator_add(web_research_results,
                                       update.web_research_results)
                   /\ pc' = Edge("web_research")
                   /\ UNCHANGED <<research_topic, search_query, running_summary,
                                  success, sources, error_message, raised>>
    /\ UNCHANGED <<config, modelCalls, summarized, outerVars>>

WebResearch ==
    /\ pc = "web_research"
    /\ trace' = Append(trace, "web_research")
    /\ \E outcome \in BackendOutcomes :
        LET update == web_research(State, config, outcome)
        IN /\ lastCall' = IF ConfigOk THEN BackendCall("web_research", outcome,
                                           DispatchedQuery(State))
                          ELSE NoCall("web_research")
           /\ backendCalls' = IF ConfigOk THEN backendCalls + 1 ELSE backendCalls
           /\ backendResults' = IF ConfigOk THEN Append(backendResults, outcome)
                                 ELSE backendResults
           /\ backendRaises' = IF ConfigOk /\ outcome.raises
                               THEN backendRaises + 1 ELSE backendRaises
           /\ IF update.raised # "none" THEN Fail(update.raised)
              ELSE /\ sources_gathered' =
                          operator_add(sources_gathered, update.sources_gathered)
                   /\ research_loop_count' = update.research_loop_count
                   /\ web_research_results' =
                          operator_add(web_research_results,
                                       update.web_research_results)
                   /\ pc' = Edge("web_research")
                   /\ UNCHANGED <<research_topic, search_query, running_summary,
                                  success, sources, error_message, raised>>
    /\ UNCHANGED <<config, modelCalls, summarized, outerVars>>

\* the model is called unless the step fails before llm.invoke
SummarizeCalls == Len(web_research_results) > 0 /\ ConfigOk

SummarizeSources ==
    /\ pc = "summarize_sources"
    /\ trace' = Append(trace, "summarize_sources")
    /\ \E resp \in SummaryResponses :
        LET update == summarize_sources(State, config, resp)
        IN /\ lastCall' = IF SummarizeCalls
                          THEN ModelCall("summarize_sources", resp)
                          ELSE NoCall("summarize_sources")
           /\ modelCalls' = IF SummarizeCalls THEN modelCalls + 1 ELSE modelCalls
           /\ summarized' = (summarized \/ (SummarizeCalls /\ ~resp.raises))
           /\ running_summary' = update.running_summary
           /\ pc' = Edge("summarize_sources")
    /\ UNCHANGED <<research_topic, search_query, web_research_results,
                   sources_gathered, research_loop_count, success, sources,
                   error_message, config, raised, backendCalls,
                   backendRaises, backendResults, outerVars>>

ReflectOnSummary ==
    /\ pc = "reflect_on_summary"
    /\ trace' = Append(trace, "reflect_on_summary")
    /\ \E resp \in QueryResponses(config.use_tool_calling, FollowUpQueryField) :
        LET update == reflect_on_summary(State, config, resp)
        IN /\ lastCall' = IF ConfigOk THEN ModelCall("reflect_on_summary", resp)
                          ELSE NoCall("reflect_on_summary")
           /\ modelCalls' = IF ConfigOk THEN modelCalls + 1 ELSE modelCalls
           /\ IF update.raised # "none" THEN Fail(update.raised)
              ELSE /\ search_query' = update.search_query
                   /\ pc' = Edge("reflect_on_summary")
                   /\ UNCHANGED <<research_topic, web_research_results,
                                  sources_gathered, research_loop_count,
                                  running_summary, success, sources,
                                  error_message, raised>>
    /\ UNCHANGED <<config, backendCalls, backendRaises, summarized,
                   backendResults, outerVars>>

\* the conditional edge after reflect_on_summary
RouteResearch ==
    /\ pc = "route_research"
    /\ trace' = Append(trace, "route_research")
    /\ lastCall' = NoCall("route_research")
    /\ LET route == route_research(State, config)
       IN IF ~route.ok THEN Fail("ValidationError")
          ELSE /\ pc' = route.next
               /\ UNCHANGED stateVars
               /\ UNCHANGED raised
    /\ UNCHANGED <<config, backendCalls, backendRaises, modelCalls, summarized,
                   backendResults, outerVars>>

\* mutant: the URLs come out in an order that is not fixed by the state
FinalizeSummary_AnyOrder ==
    /\ pc = "finalize_summary"
    /\ trace' = Append(trace, "finalize_summary")
    /\ lastCall' = NoCall("finalize_summary")
    /\ LET update == finalize_summary(State)
       IN /\ running_summary' = update.running_summary
          /\ success' = update.success
          /\ sources' \in {update.sources}
                 \cup {[i \in 1..Len(update.sources) |->
                           update.sources[Len(update.sources) + 1 - i]]}
          /\ error_message' = update.error_message
    /\ pc' = Edge("finalize_summary")
    /\ UNCHANGED <<research_topic, search_query, web_research_results,
                   sources_gathered, research_loop_count, config, raised,
                   backendCalls, backendRaises, modelCalls, summarized,
                   backendResults, outerVars>>

FinalizeSummary ==
    /\ pc = "finalize_summary"
    /\ trace' = Append(trace, "finalize_summary")
    /\ lastCall' = NoCall("finalize_summary")
    /\ LET update == finalize_summary(State)
       IN /\ running_summary' = update.running_summary
          /\ success' = update.success
          /\ sources' = update.sources
          /\ error_message' = update.error_message
    /\ pc' = Edge("finalize_summary")
    /\ UNCHANGED <<research_topic, search_query, web_research_results,
                   sources_gathered, research_loop_count, config, raised,
                   backendCalls, backendRaises, modelCalls, summarized,
                   backendResults, outerVars>>

Next ==
    \/ GenerateQuery
    \/ WebResearch
    \/ SummarizeSources
    \/ ReflectOnSummary
    \/ RouteResearch
    \/ FinalizeSummary

Spec == Init /\ [][Next]_vars

\* every step blocks on its call and returns or raises, so a run whose next
\* node is enabled takes it
FairSpec == Spec /\ WF_vars(Next)

TypeOK ==
    /\ research_topic \in Topics
    /\ config \in Configs
    /\ research_loop_count \in Nat
    /\ success \in BOOLEAN
    /\ pc \in {"generate_query", "web_research", "summarize_sources",
               "reflect_on_summary", "route_research", "finalize_summary",
               "END", "FAILED"}
    /\ raised \in {"none", "ValidationError", "ModelError", "AttributeError"}
    /\ summarized \in BOOLEAN
    /\ Len(web_research_results) = Len(sources_gathered)

(***************************************************************************)
(* The run of the scenario with three backend calls: a valid configuration *)
(* whose max_web_research_loops lets the loop run three times.             *)
(***************************************************************************)
ScenarioLoops == 2

ScenarioInit ==
    /\ research_topic = <<"q","c">>
    /\ search_query = None
    /\ web_research_results = <<>>
    /\ sources_gathered = <<>>
    /\ research_loop_count = 0
    /\ running_summary = None
    /\ success = FALSE
    /\ sources = <<>>
    /\ error_message = None
    /\ pc = Edge("START")
    /\ raised = "none"
    /\ trace = <<>>
    /\ lastCall = NoCall("START")
    /\ backendCalls = 0
    /\ backendRaises = 0
    /\ modelCalls = 0
    /\ summarized = FALSE
    /\ backendResults = <<>>
    /\ request = None
    /\ response = None
    /\ environ = <<>>
    /\ configuration = None
    /\ other = None
    /\ config = [max_web_research_loops |-> ScenarioLoops,
                 search_api |-> "duckduckgo",
                 fetch_full_page |-> TRUE,
                 strip_thinking_tokens |-> TRUE,
                 use_tool_calling |-> FALSE]

ScenarioSpec == ScenarioInit /\ [][Next]_vars

(***************************************************************************)
(* The service boundary (api/main.py, api/models.py): a request is         *)
(* validated, the graph runs under the deadline of asyncio.wait_for, and   *)
(* run_research turns the end of the run into the HTTP response.           *)
(***************************************************************************)
TopicField == <<"t","o","p","i","c">>
TimeoutMessage == <<"R","e","s","e","a","r","c","h"," ","r","e","q","u","e","s","t"," ","e","x","c","e","e","d","e","d"," ","5","-","m","i","n","u","t","e"," ","t","i","m","e","o","u","t">>
InternalErrorPrefix == <<"I","n","t","e","r","n","a","l"," ","e","r","r","o","r",":"," ">>

\* mutant: min_length is dropped, any string is a topic
ResearchRequest_AnyString(body) ==
    IF TopicField \in DOMAIN body /\ IsStr(body[TopicField])
    THEN [ok |-> TRUE, topic |-> body[TopicField].v]
    ELSE [ok |-> FALSE, topic |-> <<>>]

\* ResearchRequest: topic is required, a string, of length >= 1;
\* ok = FALSE stands for the validation error of the request
ResearchRequest(body) ==
    IF /\ TopicField \in DOMAIN body
       /\ IsStr(body[TopicField])
       /\ Len(body[TopicField].v) >= 1
    THEN [ok |-> TRUE, topic |-> body[TopicField].v]
    ELSE [ok |-> FALSE, topic |-> <<>>]

ResearchResponse(success_, summary, sources_, error_message_) ==
    [status |-> 200, success |-> success_, summary |-> summary,
     sources |-> sources_, error_message |-> error_message_]

\* the answer of the framework to a request body that fails validation
ValidationErrorResponse ==
    [status |-> 422, success |-> FALSE, summary |-> None, sources |-> <<>>,
     error_message |-> None]

\* str(e) of the exceptions that leave graph.ainvoke
ExceptionText(exception) ==
    CASE exception = "ValidationError" ->
             <<"v","a","l","i","d","a","t","i","o","n"," ","f","a","i","l","e","d">>
      [] exception = "ModelError" ->
             <<"m","o","d","e","l"," ","u","n","r","e","a","c","h","a","b","l","e">>
      [] exception = "AttributeError" ->
             <<"n","o"," ","a","t","t","r","i","b","u","t","e"," ","g","e","t">>
      [] OTHER -> <<>>

\* mutant: only the deadline is handled, another exception becomes a 500
run_research_Propagates(exception, result) ==
    IF exception = "none"
    THEN ResearchResponse(result.success, result.running_summary,
                          result.sources, result.error_message)
    ELSE IF exception = "TimeoutError"
    THEN ResearchResponse(FALSE, None, <<>>, Str(TimeoutMessage))
    ELSE [status |-> 500, success |-> FALSE, summary |-> None,
          sources |-> <<>>, error_message |-> None]

\* mutant: the summary is answered only for a successful run
run_research_SummaryOnSuccess(exception, result) ==
    IF exception = "none"
    THEN ResearchResponse(result.success,
                          IF result.success THEN result.running_summary
                          ELSE None,
                          result.sources, result.error_message)
    ELSE IF exception = "TimeoutError"
    THEN ResearchResponse(FALSE, None, <<>>, Str(TimeoutMessage))
    ELSE ResearchResponse(FALSE, None, <<>>,
                          Str(InternalErrorPrefix \o ExceptionText(exception)))

\* mutant: the result's error_message is not copied to the response
run_research_NoReason(exception, result) ==
    IF exception = "none"
    THEN ResearchResponse(result.success, result.running_summary,
                          result.sources, None)
    ELSE IF exception = "TimeoutError"
    THEN ResearchResponse(FALSE, None, <<>>, Str(TimeoutMessage))
    ELSE ResearchResponse(FALSE, None, <<>>,
                          Str(InternalErrorPrefix \o ExceptionText(exception)))

\* the try / except of run_research: exception is what left
\* asyncio.wait_for(graph.ainvoke(...)), "none" when it returned result
run_research(exception, result) ==
    IF exception = "none"
    THEN ResearchResponse(result.success, result.running_summary,
                          result.sources, result.error_message)
    ELSE IF exception = "TimeoutError"
    THEN ResearchResponse(FALSE, None, <<>>, Str(TimeoutMessage))
    ELSE ResearchResponse(FALSE, None, <<>>,
                          Str(InternalErrorPrefix \o ExceptionText(exception)))

\* the output of the graph: the fields of SummaryStateOutput
Result ==
    [running_summary |-> running_summary, success |-> success,
     sources |-> sources, error_message |-> error_message]

\* request bodies: no topic, an empty topic, a topic
Requests ==
    {EmptyDict, TopicField :> Str(<<>>)}
        \cup {TopicField :> Str(topic) : topic \in Topics}

\* the configurations that the environment of the service can give a run
ApiConfigs ==
    {c \in Configs : /\ c.max_web_research_loops = 0
                     /\ c.search_api \in {"duckduckgo", "bing"}}

RunningNodes ==
    {"generate_query", "web_research", "summarize_sources",
     "reflect_on_summary", "route_research", "finalize_summary"}

ApiInit ==
    /\ request \in Requests
    /\ config \in ApiConfigs
    /\ pc = "REQUEST"
    /\ research_topic = <<>>
    /\ search_query = None
    /\ web_research_results = <<>>
    /\ sources_gathered = <<>>
    /\ research_loop_count = 0
    /\ running_summary = None
    /\ success = FALSE
    /\ sources = <<>>
    /\ error_message = None
    /\ raised = "none"
    /\ trace = <<>>
    /\ lastCall = NoCall("START")
    /\ backendCalls = 0
    /\ backendRaises = 0
    /\ modelCalls = 0
    /\ summarized = FALSE
    /\ backendResults = <<>>
    /\ response = None
    /\ environ = <<>>
    /\ configuration = None
    /\ other = None

apiFrame == <<search_query, web_research_results, sources_gathered,
              research_loop_count, running_summary, success, sources,
              error_message, config, trace, lastCall, backendCalls,
              backendRaises, modelCalls, summarized, backendResults, request,
              environ, configuration, other>>

\* the request body is validated; a valid one starts the graph on a new
\* state with its topic
ReceiveRequest ==
    /\ pc = "REQUEST"
    /\ LET parsed == ResearchRequest(request)
       IN IF parsed.ok
          THEN /\ research_topic' = parsed.topic
               /\ pc' = Edge("START")
               /\ response' = response
          ELSE /\ research_topic' = research_topic
               /\ pc' = "REJECTED"
               /\ response' = ValidationErrorResponse
    /\ UNCHANGED raised
    /\ UNCHANGED apiFrame

\* the deadline of asyncio.wait_for expires while the graph runs
Deadline ==
    /\ pc \in RunningNodes
    /\ raised' = "TimeoutError"
    /\ response' = run_research("TimeoutError", Result)
    /\ pc' = "RESPONDED"
    /\ UNCHANGED research_topic
    /\ UNCHANGED apiFrame

\* graph.ainvoke returned or raised, and run_research answers
Respond ==
    /\ pc \in {"END", "FAILED"}
    /\ response' = run_research(raised, Result)
    /\ pc' = "RESPONDED"
    /\ UNCHANGED <<research_topic, raised>>
    /\ UNCHANGED apiFrame

ApiNext ==
    \/ ReceiveRequest
    \/ GenerateQuery
    \/ WebResearch
    \/ SummarizeSources
    \/ ReflectOnSummary
    \/ RouteResearch
    \/ FinalizeSummary
    \/ Deadline
    \/ Respond

ApiSpec == ApiInit /\ [][ApiNext]_vars

(***************************************************************************)
(* Configuration.from_runnable_config in full (configuration.py): every    *)
(* field of the model is resolved from the "configurable" dict of the      *)
(* RunnableConfig and from os.environ, and the constructor validates and   *)
(* coerces what was found.                                                 *)
(***************************************************************************)
\* the names of the fields, in the order of the class body
max_web_research_loops_ ==
    <<"m","a","x","_","w","e","b","_","r","e","s","e","a","r","c","h",
      "_","l","o","o","p","s">>
local_llm_ ==
    <<"l","o","c","a","l","_","l","l","m">>
search_api_ ==
    <<"s","e","a","r","c","h","_","a","p","i">>
fetch_full_page_ ==
    <<"f","e","t","c","h","_","f","u","l","l","_","p","a","g","e">>
ollama_base_url_ ==
    <<"o","l","l","a","m","a","_","b","a","s","e","_","u","r","l">>
strip_thinking_tokens_ ==
    <<"s","t","r","i","p","_","t","h","i","n","k","i","n","g","_","t",
      "o","k","e","n","s">>
use_tool_calling_ ==
    <<"u","s","e","_","t","o","o","l","_","c","a","l","l","i","n",
      "g">>
\* names of environment variables
LLM_MODEL ==
    <<"L","L","M","_","M","O","D","E","L">>
OLLAMA_BASE_URL ==
    <<"O","L","L","A","M","A","_","B","A","S","E","_","U","R","L">>
LOCAL_LLM ==
    <<"L","O","C","A","L","_","L","L","M">>
MAX_WEB_RESEARCH_LOOPS ==
    <<"M","A","X","_","W","E","B","_","R","E","S","E","A","R","C","H",
      "_","L","O","O","P","S">>
\* the defaults of the string fields
DefaultLlm ==
    <<"l","l","a","m","a","3",".","2">>
DefaultSearchApi ==
    <<"d","u","c","k","d","u","c","k","g","o">>
DefaultBaseUrl ==
    <<"h","t","t","p",":","/","/","l","o","c","a","l","h","o","s","t",
      ":","1","1","4","3","4","/">>
\* the letters str.upper() maps
LowerLetters ==
    <<"a","b","c","d","e","f","g","h","i","j","k","l","m","n","o","p",
      "q","r","s","t","u","v","w","x","y","z">>
UpperLetters ==
    <<"A","B","C","D","E","F","G","H","I","J","K","L","M","N","O","P",
      "Q","R","S","T","U","V","W","X","Y","Z">>

\* str.upper() and str.lower()
Upper(s) ==
    [i \in 1..Len(s) |->
        IF \E k \in 1..Len(LowerLetters) : LowerLetters[k] = s[i]
        THEN UpperLetters[CHOOSE k \in 1..Len(LowerLetters) : LowerLetters[k] = s[i]]
        ELSE s[i]]

Lower(s) ==
    [i \in 1..Len(s) |->
        IF \E k \in 1..Len(UpperLetters) : UpperLetters[k] = s[i]
        THEN LowerLetters[CHOOSE k \in 1..Len(UpperLetters) : UpperLetters[k] = s[i]]
        ELSE s[i]]

\* cls.model_fields
model_fields ==
    <<max_web_research_loops_, local_llm_, search_api_, fetch_full_page_,
      ollama_base_url_, strip_thinking_tokens_, use_tool_calling_>>

\* the annotation of every field
FieldType ==
    (max_web_research_loops_ :> "int") @@ (local_llm_ :> "str")
    @@ (search_api_ :> "Literal") @@ (fetch_full_page_ :> "bool")
    @@ (ollama_base_url_ :> "str") @@ (strip_thinking_tokens_ :> "bool")
    @@ (use_tool_calling_ :> "bool")

\* the default of every field
FieldDefault ==
    (max_web_research_loops_ :> Num(<<"3">>))
    @@ (local_llm_ :> Str(DefaultLlm))
    @@ (search_api_ :> Str(DefaultSearchApi))
    @@ (fetch_full_page_ :> PyTrue)
    @@ (ollama_base_url_ :> Str(DefaultBaseUrl))
    @@ (strip_thinking_tokens_ :> PyTrue)
    @@ (use_tool_calling_ :> PyFalse)

\* the names the Literal of search_api admits
SearchAPINames ==
    {<<"p","e","r","p","l","e","x","i","t","y">>, <<"t","a","v","i","l","y">>,
     DefaultSearchApi, <<"s","e","a","r","x","n","g">>}

\* the strings pydantic reads as a bool, in lower case
TrueWords ==
    {<<"1">>, <<"o","n">>, <<"t">>, <<"t","r","u","e">>, <<"y">>,
     <<"y","e","s">>}

FalseWords ==
    {<<"0">>, <<"o","f","f">>, <<"f">>, <<"f","a","l","s","e">>, <<"n">>,
     <<"n","o">>}

\* a decimal integer, with an optional sign
IsIntegerText(s) ==
    LET body == IF Len(s) > 0 /\ s[1] \in {"-", "+"} THEN Tail(s) ELSE s
    IN /\ Len(body) > 0
       /\ \A i \in 1..Len(body) : body[i] \in Digits

\* pydantic's validation of one field: ok = FALSE stands for the
\* ValidationError, value is the coerced value
Validate(type, value) ==
    CASE type = "str" ->
            [ok |-> value.t = "str", value |-> value]
      [] type = "Literal" ->
            [ok |-> value.t = "str" /\ value.v \in SearchAPINames,
             value |-> value]
      [] type = "int" ->
            IF value.t = "num" THEN [ok |-> TRUE, value |-> value]
            ELSE IF value.t = "str" /\ IsIntegerText(Strip(value.v))
            THEN [ok |-> TRUE,
                  value |-> Num(IF Strip(value.v)[1] = "+"
                                THEN Tail(Strip(value.v))
                                ELSE Strip(value.v))]
            ELSE [ok |-> FALSE, value |-> value]
      [] type = "bool" ->
            IF value.t \in {"true", "false"} THEN [ok |-> TRUE, value |-> value]
            ELSE IF value.t = "str" /\ Lower(value.v) \in TrueWords
            THEN [ok |-> TRUE, value |-> PyTrue]
            ELSE IF value.t = "str" /\ Lower(value.v) \in FalseWords
            THEN [ok |-> TRUE, value |-> PyFalse]
            ELSE [ok |-> FALSE, value |-> value]

\* cls(**values): the fields that were passed are validated, the others
\* take their defaults
Configuration(values) ==
    LET checked == [name \in DOMAIN values |->
                        Validate(FieldType[name], values[name])]
    IN [ok |-> \A name \in DOMAIN values : checked[name].ok,
        value |-> [i \in 1..Len(model_fields) |->
                      IF model_fields[i] \in DOMAIN values
                      THEN checked[model_fields[i]].value
                      ELSE FieldDefault[model_fields[i]]]]

env_mappings ==
    (LLM_MODEL :> local_llm_) @@ (OLLAMA_BASE_URL :> ollama_base_url_)

\* the custom environment name of a field, None when it has none
env_name_of(name) ==
    IF \E env_var \in DOMAIN env_mappings : env_mappings[env_var] = name
    THEN Str(CHOOSE env_var \in DOMAIN env_mappings : env_mappings[env_var] = name)
    ELSE None


\* one pass of the loop over the fields: raw_values[name]
raw_value(name, configurable, os_environ) ==
    IF name \in DOMAIN configurable
    THEN configurable[name]
    ELSE LET env_name == env_name_of(name)
         IN IF env_name # None /\ env_name.v \in DOMAIN os_environ
            THEN Str(os_environ[env_name.v])
            ELSE IF Upper(name) \in DOMAIN os_environ
            THEN Str(os_environ[Upper(name)])
            ELSE None

\* Configuration.from_runnable_config(config) with os.environ as it stands
from_runnable_config(configurable, os_environ) ==
    LET names == {model_fields[i] : i \in 1..Len(model_fields)}
        values == {name \in names :
                      raw_value(name, configurable, os_environ) # None}
    IN Configuration([name \in values |->
                         raw_value(name, configurable, os_environ)])

\* the resolved value of a field
FieldOf(resolved, name) ==
    resolved.value[CHOOSE i \in 1..Len(model_fields) : model_fields[i] = name]

(***************************************************************************)
(* The resolver on its own: a configurable dict and an environment drawn   *)
(* from bounded sets, and the one step that resolves them.                 *)
(***************************************************************************)
ExplicitLlm == <<"m","1">>
CustomEnvLlm == <<"m","2">>
UpperEnvLlm == <<"m","3">>
ExplicitLoops == <<"5">>
EnvLoops == <<"7">>
BadEnvLoops == <<"x">>

\* a dict with the key when the value is given, without it otherwise
Entry(present, key, value) == IF present THEN (key :> value) ELSE <<>>

Configurables ==
    {Entry(llm # "absent", local_llm_,
           IF llm = "None" THEN None ELSE Str(ExplicitLlm))
     @@ Entry(loops # "absent", max_web_research_loops_,
              IF loops = "None" THEN None ELSE Num(ExplicitLoops)) :
        llm \in {"absent", "None", "value"},
        loops \in {"absent", "None", "value"}}

Environments ==
    {Entry(custom, LLM_MODEL, CustomEnvLlm)
     @@ Entry(upper, LOCAL_LLM, UpperEnvLlm)
     @@ Entry(loops # "unset", MAX_WEB_RESEARCH_LOOPS,
              IF loops = "bad" THEN BadEnvLoops ELSE EnvLoops) :
        custom \in BOOLEAN, upper \in BOOLEAN,
        loops \in {"unset", "set", "bad"}}

ConfigInit ==
    /\ config \in Configurables
    /\ environ \in Environments
    /\ pc = "CONFIGURE"
    /\ configuration = None
    /\ research_topic = <<>>
    /\ search_query = None
    /\ web_research_results = <<>>
    /\ sources_gathered = <<>>
    /\ research_loop_count = 0
    /\ running_summary = None
    /\ success = FALSE
    /\ sources = <<>>
    /\ error_message = None
    /\ raised = "none"
    /\ trace = <<>>
    /\ lastCall = NoCall("START")
    /\ backendCalls = 0
    /\ backendRaises = 0
    /\ modelCalls = 0
    /\ summarized = FALSE
    /\ backendResults = <<>>
    /\ request = None
    /\ response = None
    /\ other = None

\* the configuration of a run is resolved; a ValidationError ends it
ResolveConfiguration ==
    /\ pc = "CONFIGURE"
    /\ configuration' = from_runnable_config(config, environ)
    /\ pc' = IF configuration'.ok THEN "CONFIGURED" ELSE "FAILED"
    /\ raised' = IF configuration'.ok THEN raised ELSE "ValidationError"
    /\ UNCHANGED <<research_topic, search_query, web_research_results,
                   sources_gathered, research_loop_count, running_summary,
                   success, sources, error_message, config, trace, lastCall,
                   backendCalls, backendRaises, modelCalls, summarized,
                   backendResults, request, response, environ, other>>

ConfigSpec == ConfigInit /\ [][ResolveConfiguration]_vars

(***************************************************************************)
(* Two runs at once (api/main.py): every request calls graph.ainvoke with  *)
(* a state of its own.  The first run lives in the variables of the graph, *)
(* the second one in the record `other`; their steps interleave freely.    *)
(***************************************************************************)
\* the state a call of graph.ainvoke starts from: the topic of the request
\* and the defaults of SummaryState
NewRun(topic, config_) ==
    [research_topic |-> topic,
     search_query |-> None,
     web_research_results |-> <<>>,
     sources_gathered |-> <<>>,
     research_loop_count |-> 0,
     running_summary |-> None,
     success |-> FALSE,
     sources |-> <<>>,
     error_message |-> None,
     config |-> config_,
     pc |-> Edge("START"),
     raised |-> "none"]

\* the first run as one record
RunRecord ==
    [research_topic |-> research_topic,
     search_query |-> search_query,
     web_research_results |-> web_research_results,
     sources_gathered |-> sources_gathered,
     research_loop_count |-> research_loop_count,
     running_summary |-> running_summary,
     success |-> success,
     sources |-> sources,
     error_message |-> error_message,
     config |-> config,
     pc |-> pc,
     raised |-> raised]

\* what the model or the backend may answer to the node a run is at
Inputs(run) ==
    CASE run.pc = "generate_query" ->
            QueryResponses(run.config.use_tool_calling, QueryField)
      [] run.pc = "reflect_on_summary" ->
            QueryResponses(run.config.use_tool_calling, FollowUpQueryField)
      [] run.pc = "web_research" -> BackendOutcomes
      [] run.pc = "summarize_sources" -> SummaryResponses
      [] run.pc \in {"route_research", "finalize_summary"} -> {None}
      [] OTHER -> {}

\* a node raised: the run ends with its state as it was
FailRun(run, exception) == [run EXCEPT !.pc = "FAILED", !.raised = exception]

\* one step of the compiled graph on a run: the node at run.pc is applied to
\* the run's own state, its update is merged, and the edge is followed
StepRun(run, input) ==
    CASE run.pc = "generate_query" ->
            LET update == generate_query(run, run.config, input)
            IN IF update.raised # "none" THEN FailRun(run, update.raised)
               ELSE [run EXCEPT !.search_query = update.search_query,
                                !.pc = Edge("generate_query")]
      [] run.pc = "web_research" ->
            LET update == web_research(run, run.config, input)
            IN IF update.raised # "none" THEN FailRun(run, update.raised)
               ELSE [run EXCEPT
                        !.sources_gathered =
                            operator_add(run.sources_gathered,
                                         update.sources_gathered),
                        !.research_loop_count = update.research_loop_count,
                        !.web_research_results =
                            operator_add(run.web_research_results,
                                         update.web_research_results),
                        !.pc = Edge("web_research")]
      [] run.pc = "summarize_sources" ->
            LET update == summarize_sources(run, run.config, input)
            IN [run EXCEPT !.running_summary = update.running_summary,
                           !.pc = Edge("summarize_sources")]
      [] run.pc = "reflect_on_summary" ->
            LET update == reflect_on_summary(run, run.config, input)
            IN IF update.raised # "none" THEN FailRun(run, update.raised)
               ELSE [run EXCEPT !.search_query = update.search_query,
                                !.pc = Edge("reflect_on_summary")]
      [] run.pc = "route_research" ->
            LET route == route_research(run, run.config)
            IN IF ~route.ok THEN FailRun(run, "ValidationError")
               ELSE [run EXCEPT !.pc = route.next]
      [] run.pc = "finalize_summary" ->
            LET update == finalize_summary(run)
            IN [run EXCEPT !.running_summary = update.running_summary,
                           !.success = update.success,
                           !.sources = update.sources,
                           !.error_message = update.error_message,
                           !.pc = Edge("finalize_summary")]

\* the configuration both requests run under (main.py:50-58)
ConcurrentConfig ==
    [max_web_research_loops |-> 0,
     search_api |-> "duckduckgo",
     fetch_full_page |-> TRUE,
     strip_thinking_tokens |-> TRUE,
     use_tool_calling |-> FALSE]

ConcurrentInit ==
    /\ research_topic \in Topics
    /\ config = ConcurrentConfig
    /\ other \in {NewRun(topic, ConcurrentConfig) : topic \in Topics}
    /\ search_query = None
    /\ web_research_results = <<>>
    /\ sources_gathered = <<>>
    /\ research_loop_count = 0
    /\ running_summary = None
    /\ success = FALSE
    /\ sources = <<>>
    /\ error_message = None
    /\ pc = Edge("START")
    /\ raised = "none"
    /\ trace = <<>>
    /\ lastCall = NoCall("START")
    /\ backendCalls = 0
    /\ backendRaises = 0
    /\ modelCalls = 0
    /\ summarized = FALSE
    /\ backendResults = <<>>
    /\ request = None
    /\ response = None
    /\ environ = <<>>
    /\ configuration = None

\* mutant: the second run gathers its sources in the list of the first run
OtherStep_Shared ==
    /\ other.pc \in RunningNodes
    /\ \E input \in Inputs(other) :
        /\ other' = StepRun(other, input)
        /\ sources_gathered' =
              IF other.pc = "web_research"
              THEN sources_gathered \o other'.sources_gathered
              ELSE sources_gathered
    /\ UNCHANGED <<research_topic, search_query, web_research_results,
                   research_loop_count, running_summary,
                   success, sources, error_message, config, pc, raised,
                   trace, lastCall, backendCalls, backendRaises, modelCalls,
                   summarized, backendResults, request, response, environ,
                   configuration>>

\* a step of the second run
OtherStep ==
    /\ other.pc \in RunningNodes
    /\ \E input \in Inputs(other) : other' = StepRun(other, input)
    /\ UNCHANGED <<research_topic, search_query, web_research_results,
                   sources_gathered, research_loop_count, running_summary,
                   success, sources, error_message, config, pc, raised,
                   trace, lastCall, backendCalls, backendRaises, modelCalls,
                   summarized, backendResults, request, response, environ,
                   configuration>>

ConcurrentNext ==
    \/ GenerateQuery
    \/ WebResearch
    \/ SummarizeSources
    \/ ReflectOnSummary
    \/ RouteResearch
    \/ FinalizeSummary
    \/ OtherStep

ConcurrentSpec == ConcurrentInit /\ [][ConcurrentNext]_vars


(***************************************************************************)
(* finalize_summary on its own: the step applied to every state of a       *)
(* bounded set of gathered sources and summaries.                          *)
(***************************************************************************)
MaxSourceEntries == 2

SpacedUrlA == <<" ">> \o UrlA
Note == <<"n","o","t","e">>
NewLine == <<"\n">>

\* entries of sources_gathered: a URL, a URL twice, a URL after a space, a
\* text line and a URL, the empty text, the sentinel of a failed search,
\* two URLs around a blank line, a text line, a URL before a carriage
\* return
FinalizerEntries ==
    {UrlA,
     UrlA \o NewLine \o UrlA,
     SpacedUrlA,
     Note \o NewLine \o UrlB,
     <<>>,
     ErrorFetchingSources,
     UrlB \o NewLine \o <<" ", " ">> \o NewLine \o UrlA,
     Note,
     UrlC \o <<"\r">>}

FinalizerSources ==
    UNION {[1..n -> FinalizerEntries] : n \in 0..MaxSourceEntries}

\* no summary, the empty text, the placeholder, and texts of exactly
\* SummaryMinLen and SummaryMinLen + 1 characters
FinalizerSummaries ==
    {None, Str(<<>>), Str(SummaryGenerationFailed),
     Str(Repeat("x", SummaryMinLen)), Str(LongSummary)}

FinalizerInit ==
    /\ research_topic \in Topics
    /\ config = [max_web_research_loops |-> 0,
                 search_api |-> "duckduckgo",
                 fetch_full_page |-> TRUE,
                 strip_thinking_tokens |-> TRUE,
                 use_tool_calling |-> FALSE]
    /\ search_query = Str(Q1)
    /\ sources_gathered \in FinalizerSources
    /\ web_research_results = sources_gathered
    /\ research_loop_count = Len(sources_gathered)
    /\ running_summary \in FinalizerSummaries
    /\ success = FALSE
    /\ sources = <<>>
    /\ error_message = None
    /\ pc = "finalize_summary"
    /\ raised = "none"
    /\ trace = <<>>
    /\ lastCall = NoCall("route_research")
    /\ backendCalls = 0
    /\ backendRaises = 0
    /\ modelCalls = 0
    /\ summarized = FALSE
    /\ backendResults = <<>>
    /\ request = None
    /\ response = None
    /\ environ = <<>>
    /\ configuration = None
    /\ other = None

FinalizerSpec == FinalizerInit /\ [][FinalizeSummary]_vars

(***************************************************************************)
(* The extractor on its own: one model output, given once as the args of   *)
(* a tool call and once as the JSON text of the same object, is run        *)
(* through both modes of generate_search_query_with_structured_output.     *)
(***************************************************************************)
Q2 == <<"q","2">>
OtherField == <<"n","o","t","e">>

\* the objects the model may put out: without the requested field, with
\* the field empty, and with the field set to a non-empty text
ModelObjects(field) ==
    {EmptyDict,
     (OtherField :> Str(Q1)),
     (field :> Str(<<>>)),
     (field :> Str(Q1)),
     (field :> Str(Q2)),
     (field :> Str(<<"a">>)),
     (field :> Str(<<" ">>))}

\* json.dumps of an object with at most one text member
ObjectText(object) ==
    IF DOMAIN object = {} THEN <<"{", "}">>
    ELSE LET key == CHOOSE k \in DOMAIN object : TRUE
         IN JsonObject(key, object[key].v)

\* the model's answer carrying the object in the given mode
AnswerIn(use_tool_calling, object) ==
    IF use_tool_calling
    THEN ToolAnswer(<<[name |-> ToolName, args |-> object]>>)
    ELSE TextAnswer(ObjectText(object))

ExtractorInit ==
    /\ research_topic \in Topics
    /\ config \in [max_web_research_loops : {0},
                   search_api : {"duckduckgo"},
                   fetch_full_page : {TRUE},
                   strip_thinking_tokens : BOOLEAN,
                   use_tool_calling : {FALSE}]
    /\ request \in {[field |-> field, object |-> object] :
                       field \in {QueryField, FollowUpQueryField},
                       object \in ModelObjects(QueryField)
                                  \cup ModelObjects(FollowUpQueryField)}
    /\ pc = "EXTRACT"
    /\ response = None
    /\ search_query = None
    /\ web_research_results = <<>>
    /\ sources_gathered = <<>>
    /\ research_loop_count = 0
    /\ running_summary = None
    /\ success = FALSE
    /\ sources = <<>>
    /\ error_message = None
    /\ raised = "none"
    /\ trace = <<>>
    /\ lastCall = NoCall("START")
    /\ backendCalls = 0
    /\ backendRaises = 0
    /\ modelCalls = 0
    /\ summarized = FALSE
    /\ backendResults = <<>>
    /\ environ = <<>>
    /\ configuration = None
    /\ other = None

\* the extractor is called in each mode on the same model output
Extract ==
    /\ pc = "EXTRACT"
    /\ response' =
          [mode \in BOOLEAN |->
              generate_search_query_with_structured_output(
                  [config EXCEPT !.use_tool_calling = mode],
                  AnswerIn(mode, request.object),
                  FallbackQuery(State), request.field, request.field)]
    /\ pc' = "EXTRACTED"
    /\ UNCHANGED <<research_topic, search_query, web_research_results,
                   sources_gathered, research_loop_count, running_summary,
                   success, sources, error_message, config, raised, trace,
                   lastCall, backendCalls, backendRaises, modelCalls,
                   summarized, backendResults, request, environ,
                   configuration, other>>

ExtractorSpec == ExtractorInit /\ [][Extract]_vars

(***************************************************************************)
(* The human message summarize_sources sends to the model (graph.py:       *)
(* 286-297), and the node on its own: applied to every state of a bounded  *)
(* set of research results and summaries, with every answer of the model.  *)
(***************************************************************************)
\* the pieces of the two f-strings
ExistingOpen ==
    <<"<","E","x","i","s","t","i","n","g"," ","S","u","m","m","a","r","y",
      ">"," ","\n"," ">>
ExistingClose ==
    <<" ","\n"," ","<","E","x","i","s","t","i","n","g"," ","S","u","m",
      "m","a","r","y",">","\n","\n">>
NewContextOpen ==
    <<"<","N","e","w"," ","C","o","n","t","e","x","t",">"," ","\n"," ">>
NewContextClose ==
    <<" ","\n"," ","<","N","e","w"," ","C","o","n","t","e","x","t",">">>
UpdateRequest ==
    <<"U","p","d","a","t","e"," ","t","h","e"," ","E","x","i","s","t","i",
      "n","g"," ","S","u","m","m","a","r","y"," ","w","i","t","h"," ","t",
      "h","e"," ","N","e","w"," ","C","o","n","t","e","x","t"," ","o","n",
      " ","t","h","i","s"," ","t","o","p","i","c",":"," ","\n"," ","<",
      "U","s","e","r"," ","I","n","p","u","t",">"," ","\n"," ">>
ContextOpen ==
    <<"<","C","o","n","t","e","x","t",">"," ","\n"," ">>
ContextClose ==
    <<" ","\n"," ","<","C","o","n","t","e","x","t",">">>
CreateRequest ==
    <<"C","r","e","a","t","e"," ","a"," ","S","u","m","m","a","r","y"," ",
      "u","s","i","n","g"," ","t","h","e"," ","C","o","n","t","e","x","t",
      " ","o","n"," ","t","h","i","s"," ","t","o","p","i","c",":"," ",
      "\n"," ","<","U","s","e","r"," ","I","n","p","u","t",">"," ","\n",
      " ">>
UserInputClose ==
    <<" ","\n"," ","<","U","s","e","r"," ","I","n","p","u","t",">","\n",
      "\n">>

\* the message that asks for an update of an existing summary
UpdateMessage(existing_summary, most_recent_web_research, topic) ==
    ExistingOpen \o existing_summary \o ExistingClose
    \o NewContextOpen \o most_recent_web_research \o NewContextClose
    \o UpdateRequest \o topic \o UserInputClose

\* the message that asks for a first summary
CreateMessage(most_recent_web_research, topic) ==
    ContextOpen \o most_recent_web_research \o ContextClose
    \o CreateRequest \o topic \o UserInputClose

\* mutant: the existing summary is passed whenever it is not None
human_message_content_IsSet(state) ==
    LET most_recent_web_research ==
            state.web_research_results[Len(state.web_research_results)]
    IN IF state.running_summary # None
       THEN UpdateMessage(state.running_summary.v, most_recent_web_research,
                          state.research_topic)
       ELSE CreateMessage(most_recent_web_research, state.research_topic)

\* human_message_content of summarize_sources
human_message_content(state) ==
    LET most_recent_web_research ==
            state.web_research_results[Len(state.web_research_results)]
    IN IF Truthy(state.running_summary)
       THEN UpdateMessage(state.running_summary.v, most_recent_web_research,
                          state.research_topic)
       ELSE CreateMessage(most_recent_web_research, state.research_topic)

\* entries of web_research_results: one hit, another hit, a failed search
SummarizerEntries ==
    {deduplicate_and_format_sources(<<Hit(UrlA)>>, MAX_TOKENS_PER_SOURCE, TRUE),
     deduplicate_and_format_sources(<<Hit(UrlB)>>, MAX_TOKENS_PER_SOURCE, TRUE),
     SearchFailedPrefix \o <<"d","o","w","n">>}

\* the summaries an earlier summarize_sources can have left
SummarizerSummaries ==
    {Str(<<>>), Str(ShortSummary), Str(LongSummary),
     Str(SummaryGenerationFailed)}

\* the first call sees one entry and no summary, the second one two entries
\* and the summary of the first
SummarizerInit ==
    /\ research_topic \in Topics
    /\ config \in [max_web_research_loops : {1},
                   search_api : {"duckduckgo"},
                   fetch_full_page : {TRUE},
                   strip_thinking_tokens : BOOLEAN,
                   use_tool_calling : {FALSE}]
    /\ \/ /\ web_research_results \in [1..1 -> SummarizerEntries]
          /\ running_summary = None
       \/ /\ web_research_results \in [1..2 -> SummarizerEntries]
          /\ running_summary \in SummarizerSummaries
    /\ sources_gathered = web_research_results
    /\ research_loop_count = Len(web_research_results)
    /\ search_query = Str(Q1)
    /\ success = FALSE
    /\ sources = <<>>
    /\ error_message = None
    /\ pc = "summarize_sources"
    /\ raised = "none"
    /\ trace = <<>>
    /\ lastCall = NoCall("web_research")
    /\ backendCalls = 0
    /\ backendRaises = 0
    /\ modelCalls = 0
    /\ summarized = FALSE
    /\ backendResults = <<>>
    /\ request = None
    /\ response = None
    /\ environ = <<>>
    /\ configuration = None
    /\ other = None

\* summarize_sources with the message it sends kept in `request`
Summarize ==
    /\ pc = "summarize_sources"
    /\ \E resp \in SummaryResponses :
        LET update == summarize_sources(State, config, resp)
        IN /\ lastCall' = IF SummarizeCalls
                          THEN ModelCall("summarize_sources", resp)
                          ELSE NoCall("summarize_sources")
           /\ modelCalls' = IF SummarizeCalls THEN modelCalls + 1 ELSE modelCalls
           /\ request' = IF SummarizeCalls
                         THEN Str(human_message_content(State))
                         ELSE request
           /\ running_summary' = update.running_summary
           /\ summarized' = (summarized \/ (SummarizeCalls /\ ~resp.raises))
    /\ pc' = Edge("summarize_sources")
    /\ trace' = Append(trace, "summarize_sources")
    /\ UNCHANGED <<research_topic, search_query, web_research_results,
                   sources_gathered, research_loop_count, success, sources,
                   error_message, config, raised, backendCalls,
                   backendRaises, backendResults, response, environ,
                   configuration, other>>

SummarizerSpec == SummarizerInit /\ [][Summarize]_vars

(***************************************************************************)
(* Configuration.from_runnable_config of the Gemini researcher             *)
(* (gemini_deep_researcher/configuration.py), and the resolver on its own. *)
(***************************************************************************)
llm_name_ ==
    <<"l","l","m","_","n","a","m","e">>
LLM_NAME ==
    <<"L","L","M","_","N","A","M","E">>
STRIP_THINKING_TOKENS ==
    <<"S","T","R","I","P","_","T","H","I","N","K","I","N","G","_","T","O",
      "K","E","N","S">>
GeminiDefaultLlm ==
    <<"g","e","m","i","n","i","-","2",".","5","-","p","r","o","-","p","r",
      "e","v","i","e","w","-","0","3","-","2","5">>

\* cls.model_fields of the Gemini Configuration
gemini_model_fields ==
    <<max_web_research_loops_, llm_name_, search_api_, fetch_full_page_,
      strip_thinking_tokens_>>

gemini_FieldType ==
    (max_web_research_loops_ :> "int") @@ (llm_name_ :> "str")
    @@ (search_api_ :> "Literal") @@ (fetch_full_page_ :> "bool")
    @@ (strip_thinking_tokens_ :> "bool")

gemini_FieldDefault ==
    (max_web_research_loops_ :> Num(<<"3">>))
    @@ (llm_name_ :> Str(GeminiDefaultLlm))
    @@ (search_api_ :> Str(DefaultSearchApi))
    @@ (fetch_full_page_ :> PyTrue)
    @@ (strip_thinking_tokens_ :> PyTrue)

\* cls(**values) of the Gemini Configuration
gemini_Configuration(values) ==
    LET checked == [name \in DOMAIN values |->
                        Validate(gemini_FieldType[name], values[name])]
    IN [ok |-> \A name \in DOMAIN values : checked[name].ok,
        value |-> [i \in 1..Len(gemini_model_fields) |->
                      IF gemini_model_fields[i] \in DOMAIN values
                      THEN checked[gemini_model_fields[i]].value
                      ELSE gemini_FieldDefault[gemini_model_fields[i]]]]

\* os.environ.get(name.upper(), configurable.get(name))
gemini_raw_value(name, configurable, os_environ) ==
    IF Upper(name) \in DOMAIN os_environ
    THEN Str(os_environ[Upper(name)])
    ELSE DictGet(configurable, name)

gemini_from_runnable_config(configurable, os_environ) ==
    LET names == {gemini_model_fields[i] : i \in 1..Len(gemini_model_fields)}
        values == {name \in names :
                      gemini_raw_value(name, configurable, os_environ) # None}
    IN gemini_Configuration(
           [name \in values |-> gemini_raw_value(name, configurable, os_environ)])

gemini_FieldOf(resolved, name) ==
    resolved.value[CHOOSE i \in 1..Len(gemini_model_fields) :
                      gemini_model_fields[i] = name]

GeminiConfigurables ==
    {Entry(llm # "absent", llm_name_,
           IF llm = "None" THEN None ELSE Str(ExplicitLlm))
     @@ Entry(loops # "absent", max_web_research_loops_,
              IF loops = "None" THEN None ELSE Num(ExplicitLoops)) :
        llm \in {"absent", "None", "value"},
        loops \in {"absent", "None", "value"}}

GeminiEnvironments ==
    {Entry(llm, LLM_NAME, UpperEnvLlm)
     @@ Entry(strip, STRIP_THINKING_TOKENS, <<"f","a","l","s","e">>)
     @@ Entry(loops # "unset", MAX_WEB_RESEARCH_LOOPS,
              IF loops = "bad" THEN BadEnvLoops ELSE EnvLoops) :
        llm \in BOOLEAN, strip \in BOOLEAN,
        loops \in {"unset", "set", "bad"}}

GeminiInit ==
    /\ config \in GeminiConfigurables
    /\ environ \in GeminiEnvironments
    /\ pc = "CONFIGURE"
    /\ configuration = None
    /\ research_topic = <<>>
    /\ search_query = None
    /\ web_research_results = <<>>
    /\ sources_gathered = <<>>
    /\ research_loop_count = 0
    /\ running_summary = None
    /\ success = FALSE
    /\ sources = <<>>
    /\ error_message = None
    /\ raised = "none"
    /\ trace = <<>>
    /\ lastCall = NoCall("START")
    /\ backendCalls = 0
    /\ backendRaises = 0
    /\ modelCalls = 0
    /\ summarized = FALSE
    /\ backendResults = <<>>
    /\ request = None
    /\ response = None
    /\ other = None

\* the Gemini configuration of a run is resolved; a ValidationError ends it
GeminiResolveConfiguration ==
    /\ pc = "CONFIGURE"
    /\ configuration' = gemini_from_runnable_config(config, environ)
    /\ pc' = IF configuration'.ok THEN "CONFIGURED" ELSE "FAILED"
    /\ raised' = IF configuration'.ok THEN raised ELSE "ValidationError"
    /\ UNCHANGED <<research_topic, search_query, web_research_results,
                   sources_gathered, research_loop_count, running_summary,
                   success, sources, error_message, config, trace, lastCall,
                   backendCalls, backendRaises, modelCalls, summarized,
                   backendResults, request, response, environ, other>>

GeminiSpec == GeminiInit /\ [][GeminiResolveConfiguration]_vars

(***************************************************************************)
(* Twin runs: the second run starts from the same topic and configuration  *)
(* as the first and is given, step by step, the answer the first run got   *)
(* from the model or the backend.                                          *)
(***************************************************************************)
TwinInit ==
    /\ research_topic \in Topics
    /\ config \in Configs
    /\ other = NewRun(research_topic, config)
    /\ search_query = None
    /\ web_research_results = <<>>
    /\ sources_gathered = <<>>
    /\ research_loop_count = 0
    /\ running_summary = None
    /\ success = FALSE
    /\ sources = <<>>
    /\ error_message = None
    /\ pc = Edge("START")
    /\ raised = "none"
    /\ trace = <<>>
    /\ lastCall = NoCall("START")
    /\ backendCalls = 0
    /\ backendRaises = 0
    /\ modelCalls = 0
    /\ summarized = FALSE
    /\ backendResults = <<>>
    /\ request = None
    /\ response = None
    /\ environ = <<>>
    /\ configuration = None

\* the twin has caught up with the first run
InStep == other.pc = pc

\* the twin takes the step the first run has just taken, with the same
\* answer of the model or the backend
TwinStep ==
    /\ ~InStep
    /\ other' = StepRun(other, lastCall.resp)
    /\ UNCHANGED <<research_topic, search_query, web_research_results,
                   sources_gathered, research_loop_count, running_summary,
                   success, sources, error_message, config, pc, raised,
                   trace, lastCall, backendCalls, backendRaises, modelCalls,
                   summarized, backendResults, request, response, environ,
                   configuration>>

TwinNext ==
    \/ InStep /\ GenerateQuery
    \/ InStep /\ WebResearch
    \/ InStep /\ SummarizeSources
    \/ InStep /\ ReflectOnSummary
    \/ InStep /\ RouteResearch
    \/ InStep /\ FinalizeSummary
    \/ TwinStep

TwinSpec == TwinInit /\ [][TwinNext]_vars

(***************************************************************************)
(* Properties of the research loop.                                        *)
(***************************************************************************)
MaxConfigured == config.max_web_research_loops

Last(seq) == seq[Len(seq)]

\* the number of web_research steps that have returned
CompletedWebResearch ==
    Cardinality({i \in 1..Len(trace) :
                    /\ trace[i] = "web_research"
                    /\ ~(i = Len(trace) /\ pc = "FAILED")})

\* C1: after n completed web_research steps, research_loop_count = n and
\* both accumulated lists hold n entries, whether the steps succeeded or hit
\* a backend error
C1_MonotonicProgress ==
    /\ research_loop_count = CompletedWebResearch
    /\ Len(web_research_results) = CompletedWebResearch
    /\ Len(sources_gathered) = CompletedWebResearch

\* two steps completed, one on a backend error and one on a success
C1_Witness ==
    /\ CompletedWebResearch = 2
    /\ backendRaises = 1
    /\ \E i \in 1..Len(sources_gathered) : sources_gathered[i] = UrlA

\* C2: after reflect_on_summary the route goes back to web_research iff
\* research_loop_count <= max and to finalize_summary iff it is > max, and
\* finalize_summary is never entered while research_loop_count <= max
C2_RouteRule ==
    /\ [][pc = "route_research" =>
            /\ (pc' = "web_research" <=> research_loop_count <= MaxConfigured)
            /\ (pc' = "finalize_summary" <=> research_loop_count > MaxConfigured)
         ]_vars
    /\ [](pc = "finalize_summary" => research_loop_count > MaxConfigured)

\* the route went back at the boundary research_loop_count = max
C2_Witness ==
    /\ pc = "web_research"
    /\ Len(trace) > 0
    /\ Last(trace) = "route_research"
    /\ research_loop_count = MaxConfigured

C4_ReachesDone == ConfigOk => <>(pc = "END")

\* C5: the steps run one at a time in the order generate_query, then
\* repeated (web_research, summarize_sources, reflect_on_summary,
\* route_research), then finalize_summary, then END: generate_query runs
\* once and first, web_research is followed by summarize_sources and then
\* reflect_on_summary, finalize_summary runs once, after a reflect and its
\* route, and nothing runs after END
C5_StepOrder ==
    /\ Len(trace) > 0 => trace[1] = "generate_query"
    /\ \A i \in 2..Len(trace) : trace[i] # "generate_query"
    /\ \A i \in 1..(Len(trace) - 1) :
        /\ trace[i] = "generate_query" => trace[i + 1] = "web_research"
        /\ trace[i] = "web_research" => trace[i + 1] = "summarize_sources"
        /\ trace[i] = "summarize_sources" => trace[i + 1] = "reflect_on_summary"
        /\ trace[i] = "reflect_on_summary" => trace[i + 1] = "route_research"
        /\ trace[i] = "route_research" =>
               trace[i + 1] \in {"web_research", "finalize_summary"}
        /\ trace[i] # "finalize_summary"
    /\ \A i \in 1..Len(trace) :
        trace[i] = "finalize_summary" =>
            /\ i >= 3
            /\ trace[i - 1] = "route_research"
            /\ trace[i - 2] = "reflect_on_summary"
    /\ pc = "END" <=> (Len(trace) > 0 /\ Last(trace) = "finalize_summary")
    /\ pc = "END" =>
        /\ Cardinality({i \in 1..Len(trace) : trace[i] = "generate_query"}) = 1
        /\ Cardinality({i \in 1..Len(trace) : trace[i] = "finalize_summary"}) = 1
        /\ ~ENABLED Next

\* a run that looped back once and then finished
C5_Witness ==
    /\ pc = "END"
    /\ Cardinality({i \in 1..Len(trace) : trace[i] = "web_research"}) = 2

\* C6: a backend error in web_research does not end the run: the step
\* appends the sentinel to sources_gathered and a "Search failed: " text to
\* web_research_results, adds exactly 1 to research_loop_count, and the run
\* goes on to summarize_sources
C6_BackendErrorStep ==
    [][(pc = "web_research" /\ lastCall'.kind = "backend" /\ lastCall'.raises) =>
          /\ sources_gathered' = Append(sources_gathered, ErrorFetchingSources)
          /\ Len(web_research_results') = Len(web_research_results) + 1
          /\ SubSeq(web_research_results', 1, Len(web_research_results))
                 = web_research_results
          /\ StartsWith(Last(web_research_results'), SearchFailedPrefix)
          /\ research_loop_count' = research_loop_count + 1
          /\ pc' = "summarize_sources"
          /\ raised' = "none"
      ]_vars

\* the second web_research step of a run hit a backend error
C6_Witness ==
    /\ pc = "summarize_sources"
    /\ lastCall.kind = "backend"
    /\ lastCall.raises
    /\ research_loop_count = 2
    /\ Last(sources_gathered) = ErrorFetchingSources

\* C7 as stated (for max >= 0): when the backend raises on every call, the
\* run is not ended early, and it reaches END with research_loop_count =
\* max + 1, no sources and success = FALSE
C7_BackendAlwaysRaises ==
    (ConfigOk /\ MaxConfigured >= 0 /\ backendCalls > 0
        /\ backendRaises = backendCalls) =>
        /\ pc # "FAILED"
        /\ pc = "END" =>
            /\ research_loop_count = MaxConfigured + 1
            /\ sources = <<>>
            /\ success = FALSE

\* C8 as stated: an unrecognized search_api ends the run before any
\* iteration (no web_research step completes, research_loop_count stays 0,
\* no entry is appended, finalize_summary is not reached), and it is the
\* only error that ends a run early
C8_OnlyFatalError ==
    /\ ~ConfigOk =>
        /\ CompletedWebResearch = 0
        /\ research_loop_count = 0
        /\ sources_gathered = <<>>
        /\ web_research_results = <<>>
        /\ pc \notin {"finalize_summary", "END"}
    /\ pc = "FAILED" => ~ConfigOk

\* the node whose model call asks for a query
QueryNodes == {"generate_query", "reflect_on_summary"}

\* C9 as stated: when llm.invoke raises in generate_query or in
\* reflect_on_summary, the step yields the fallback query and the run goes
\* on to the next step; the error does not leave the step
C9_ModelErrorFallback ==
    (lastCall.node \in QueryNodes /\ lastCall.kind = "model" /\ lastCall.raises) =>
        /\ pc = Edge(lastCall.node)
        /\ raised = "none"
        /\ search_query = FallbackQuery(State)

\* the field a node asks the model for
RequestedField(node) ==
    IF node = "generate_query" THEN QueryField ELSE FollowUpQueryField

\* the model issued no tool call, or one without the requested field, or
\* one whose requested field is not a string
NoUsableToolCall(resp, field) ==
    \/ Len(resp.tool_calls) = 0
    \/ "args" \notin DOMAIN resp.tool_calls[1]
    \/ field \notin DOMAIN resp.tool_calls[1].args
    \/ ~IsStr(resp.tool_calls[1].args[field])

\* C10 as stated: in tool-call mode, when the model issues no structured
\* call or one whose requested field is absent or malformed, the extractor
\* returns exactly the fallback string
C10_ToolModeFallback ==
    (/\ lastCall.node \in QueryNodes
     /\ lastCall.kind = "model"
     /\ ~lastCall.raises
     /\ config.use_tool_calling
     /\ NoUsableToolCall(lastCall.resp, RequestedField(lastCall.node))) =>
        search_query = FallbackQuery(State)

(***************************************************************************)
(* Properties of the query extractor in JSON mode.                         *)
(***************************************************************************)
\* the model answered a query request of `lastCall.node` in JSON mode
JsonModeAnswer ==
    /\ lastCall.node \in QueryNodes
    /\ lastCall.kind = "model"
    /\ ~lastCall.raises
    /\ ~config.use_tool_calling

\* the text does not parse as a JSON object, or the object has no `field`,
\* or an empty one
NoUsableJson(content, field) ==
    LET parsed == json_loads(content)
    IN \/ ~parsed.ok
       \/ parsed.val.t # "dict"
       \/ field \notin DOMAIN parsed.val.d
       \/ parsed.val.d[field] \in {None, Str(<<>>)}

\* C11 as stated: in JSON mode, when the model text does not parse as a JSON
\* object or the requested field is missing or empty, the extractor returns
\* exactly "Tell me more about <topic>", in generate_query and in
\* reflect_on_summary alike, and never the raw text nor the text without its
\* thinking block, whatever strip_thinking_tokens is
C11_JsonModeFallback ==
    (JsonModeAnswer
        /\ NoUsableJson(lastCall.resp.content, RequestedField(lastCall.node))) =>
        /\ search_query = Str(FallbackPrefix \o research_topic)
        /\ search_query # Str(lastCall.resp.content)
        /\ search_query # Str(strip_thinking_tokens(lastCall.resp.content))

\* C12 as stated: in JSON mode the extractor returns one query string and
\* raises nothing for every text the model can answer, valid JSON that is
\* not an object included
C12_NeverFailsOutward ==
    JsonModeAnswer =>
        /\ raised = "none"
        /\ pc = Edge(lastCall.node)
        /\ IsStr(search_query)

(***************************************************************************)
(* Properties of summarize_sources.                                        *)
(***************************************************************************)
\* llm.invoke raises in the summarize_sources step that is taken
SummarizeModelFails ==
    /\ pc = "summarize_sources"
    /\ lastCall'.kind = "model"
    /\ lastCall'.raises

\* C13 as stated: when the model call fails in summarize_sources, the
\* summary after the step is the summary before it if one was set, and the
\* placeholder "Summary generation failed" if none was; the run goes on to
\* reflect_on_summary
C13_Original ==
    [][SummarizeModelFails =>
          /\ running_summary' = IF running_summary # None THEN running_summary
                                ELSE Str(SummaryGenerationFailed)
          /\ pc' = "reflect_on_summary"
          /\ raised' = "none"
      ]_vars

\* C13 amended: the summary is kept if it was set to a non-empty text; it
\* becomes the placeholder if none was set or if it was the empty text; the
\* run goes on to reflect_on_summary
C13_SummarizeFailure ==
    [][SummarizeModelFails =>
          /\ running_summary' =
                 IF running_summary # None /\ running_summary # Str(<<>>)
                 THEN running_summary
                 ELSE Str(SummaryGenerationFailed)
          /\ pc' = "reflect_on_summary"
          /\ raised' = "none"
      ]_vars

\* the second summarize_sources of a run failed and kept the first summary
C13_Witness ==
    /\ pc = "reflect_on_summary"
    /\ lastCall.node = "summarize_sources"
    /\ lastCall.kind = "model"
    /\ lastCall.raises
    /\ research_loop_count = 2
    /\ summarized
    /\ running_summary = Str(LongSummary)

\* C14 as stated: while no summarize_sources step has succeeded, the summary
\* is None
C14_Original == ~summarized => running_summary = None

\* C14 amended: while no summarize_sources step has succeeded and
\* finalize_summary has not run, the summary is None if summarize_sources
\* has not run and the placeholder "Summary generation failed" if it has
C14_SummaryBeforeSuccess ==
    (~summarized /\ pc # "END") =>
        running_summary =
            IF \E i \in 1..Len(trace) : trace[i] = "summarize_sources"
            THEN Str(SummaryGenerationFailed)
            ELSE None

\* finalize_summary is reached after two failed summarize_sources steps
C14_Witness ==
    /\ pc = "finalize_summary"
    /\ ~summarized
    /\ Cardinality({i \in 1..Len(trace) : trace[i] = "summarize_sources"}) = 2
    /\ running_summary = Str(SummaryGenerationFailed)

(***************************************************************************)
(* Properties of finalize_summary.                                         *)
(***************************************************************************)
\* the summary check as the claims word it: non-null and longer than 50
SummaryPasses(summary) == summary # None /\ Len(summary.v) > SummaryMinLen

IsUrlLine(line) == StartsWith(Strip(line), HttpPrefix)

Elements(seq) == {seq[i] : i \in 1..Len(seq)}

\* C15 as stated: success is TRUE iff the summary is non-null and longer
\* than 50 characters and at least one deduplicated line of
\* sources_gathered begins with "http"
C15_Original ==
    [][pc = "finalize_summary" =>
          (success' <=>
              /\ SummaryPasses(running_summary)
              /\ \E line \in Elements(UniqueSources(sources_gathered)) :
                    StartsWith(line, HttpPrefix))
      ]_vars

\* C15 amended: success is TRUE iff the summary is non-null and longer than
\* 50 characters (exactly 50 is no summary) and at least one deduplicated
\* line of sources_gathered, once stripped, begins with "http"
C15_SuccessPredicate ==
    [][pc = "finalize_summary" =>
          (success' <=>
              /\ SummaryPasses(running_summary)
              /\ \E line \in Elements(UniqueSources(sources_gathered)) :
                    StartsWith(Strip(line), HttpPrefix))
      ]_vars

\* finalize_summary succeeded on sources none of whose lines begins with
\* "http" before it is stripped
C15_Witness ==
    /\ pc = "END"
    /\ success
    /\ \A line \in Elements(UniqueSources(sources_gathered)) :
          ~StartsWith(line, HttpPrefix)

\* C16: error_message is None exactly when success is TRUE; otherwise it is
\* one reason, "Failed to generate summary" whenever the summary check
\* fails (the sources missing or not), and "No sources found" only when the
\* summary check passes and sources is empty
C16_ErrorReason ==
    [][pc = "finalize_summary" =>
          /\ (error_message' = None <=> success')
          /\ ~success' =>
                 error_message' \in {Str(FailedToGenerateSummary),
                                     Str(NoSourcesFound)}
          /\ (error_message' = Str(FailedToGenerateSummary)
                 <=> ~SummaryPasses(running_summary))
          /\ (error_message' = Str(NoSourcesFound)
                 <=> (SummaryPasses(running_summary) /\ sources' = <<>>))
      ]_vars

\* both checks failed and the summary failure was reported
C16_Witness ==
    /\ pc = "END"
    /\ ~success
    /\ sources = <<>>
    /\ error_message = Str(FailedToGenerateSummary)

\* the position of the first occurrence of line in lines
FirstIndex(lines, line) ==
    CHOOSE k \in 1..Len(lines) :
        lines[k] = line /\ \A m \in 1..(k - 1) : lines[m] # line

\* C17: the dedup loop yields the non-blank lines of all entries, each
\* distinct exact line once, at the place of its first occurrence over all
\* entries: no line twice, no non-blank line lost, none added, none moved
C17_DedupOrder ==
    LET lines == AllLines(sources_gathered)
        unique_sources == UniqueSources(sources_gathered)
    IN /\ \A i, j \in 1..Len(unique_sources) :
              i < j => unique_sources[i] # unique_sources[j]
       /\ Elements(unique_sources)
              = {line \in Elements(lines) : Strip(line) # <<>>}
       /\ \A i, j \in 1..Len(unique_sources) :
              i < j => FirstIndex(lines, unique_sources[i])
                           < FirstIndex(lines, unique_sources[j])

\* finalize_summary ran on two entries that share a line, one of them with a
\* blank line
C17_Witness ==
    /\ pc = "END"
    /\ sources_gathered =
           <<UrlB \o NewLine \o <<" ", " ">> \o NewLine \o UrlA, UrlA>>
    /\ UniqueSources(sources_gathered) = <<UrlB, UrlA>>

\* C18 as stated: sources holds no element twice
C18_NoDuplicateUrls ==
    \A i, j \in 1..Len(sources) : i < j => sources[i] # sources[j]

\* the text after the "### Sources:" header of the report that
\* finalize_summary builds from the summary `before`
SourcesSection(before, after) ==
    SubSeq(after.v,
           Len(SummaryHeader) + Len(Format(before)) + Len(SourcesHeader) + 1,
           Len(after.v))

\* the deduplicated lines that are not selected are not in source_urls and
\* are lines of the Sources section of the report
OtherLinesKept ==
    LET unique_sources == UniqueSources(sources_gathered)
        section == SourcesSection(running_summary, running_summary')
    IN /\ StartsWith(running_summary'.v,
                     SummaryHeader \o Format(running_summary) \o SourcesHeader)
       /\ \A line \in Elements(unique_sources) :
              ~IsUrlLine(line) =>
                  /\ line \notin Elements(sources')
                  /\ line \in Elements(SplitLines(section))

\* C19 as stated: sources is the sequence of the deduplicated lines whose
\* stripped text begins with "http", in their order; every other line is
\* kept out of sources and is in the Sources section of the report
C19_Original ==
    [][pc = "finalize_summary" =>
          /\ sources' = SelectSeq(UniqueSources(sources_gathered), IsUrlLine)
          /\ OtherLinesKept
      ]_vars

\* C19 amended: sources is the sequence of the stripped texts of those
\* lines, in their order; every other line is kept out of sources and is in
\* the Sources section of the report
C19_SourceUrls ==
    [][pc = "finalize_summary" =>
          /\ LET selected == SelectSeq(UniqueSources(sources_gathered),
                                       IsUrlLine)
             IN sources' = [k \in 1..Len(selected) |-> Strip(selected[k])]
          /\ OtherLinesKept
      ]_vars

\* finalize_summary selected a URL written after a space and a URL that
\* follows a text line
C19_Witness ==
    /\ pc = "END"
    /\ sources_gathered = <<SpacedUrlA, Note \o NewLine \o UrlB>>
    /\ sources = <<UrlA, UrlB>>

\* C20: the dedup loop applied to its own output returns that output
C20_DedupIdempotent ==
    UniqueSources(UniqueSources(sources_gathered))
        = UniqueSources(sources_gathered)

\* finalize_summary ran on sources whose dedup dropped a line and kept
\* several
C20_Witness ==
    /\ pc = "END"
    /\ Len(UniqueSources(sources_gathered)) >= 2
    /\ Len(AllLines(sources_gathered)) > Len(UniqueSources(sources_gathered))
    /\ \E i, j \in 1..Len(AllLines(sources_gathered)) :
          i < j /\ AllLines(sources_gathered)[i] = AllLines(sources_gathered)[j]
                /\ Strip(AllLines(sources_gathered)[i]) # <<>>

\* the text that stands for the summary in the report: the summary, or the
\* text None when there is no summary
SummaryText(summary) == IF summary = None THEN NoneText ELSE summary.v

\* C21: whatever success is, the report of finalize_summary is the fixed
\* layout: the Summary header, the original summary text, the Sources
\* header, and then all deduplicated lines, one per line, the lines that
\* are no URL included
C21_ReportLayout ==
    [][pc = "finalize_summary" =>
          LET unique_sources == UniqueSources(sources_gathered)
              prefix == SummaryHeader \o SummaryText(running_summary)
                        \o SourcesHeader
              section == SubSeq(running_summary'.v, Len(prefix) + 1,
                                Len(running_summary'.v))
          IN /\ IsStr(running_summary')
             /\ StartsWith(running_summary'.v, prefix)
             /\ IF unique_sources = <<>> THEN section = <<>>
                ELSE SplitLines(section) = unique_sources
      ]_vars

\* finalize_summary failed for want of a URL and its report lists the lines
\* that are no URL
C21_Witness ==
    /\ pc = "END"
    /\ ~success
    /\ sources = <<>>
    /\ sources_gathered = <<ErrorFetchingSources, Note>>
    /\ running_summary =
           Str(SummaryHeader \o LongSummary \o SourcesHeader
               \o ErrorFetchingSources \o NewLine \o Note)

(***************************************************************************)
(* Properties of the calls a run makes.                                    *)
(***************************************************************************)
\* the number of iterations begun: the web_research steps taken
Iterations == Cardinality({i \in 1..Len(trace) : trace[i] = "web_research"})

\* C27: no step retries a failed call.  A web_research step makes at most
\* one backend call and no model call; generate_query, summarize_sources and
\* reflect_on_summary make at most one model call each and no backend call;
\* no other step calls anything; a run of n iterations has made at most n
\* backend calls and 2n + 1 model calls; the step whose call failed is not
\* the step that runs next
C27_NoRetry ==
    /\ [][/\ backendCalls' \in {backendCalls, backendCalls + 1}
          /\ modelCalls' \in {modelCalls, modelCalls + 1}
          /\ backendCalls' # backendCalls =>
                 (pc = "web_research" /\ modelCalls' = modelCalls)
          /\ modelCalls' # modelCalls =>
                 pc \in {"generate_query", "summarize_sources",
                         "reflect_on_summary"}
         ]_vars
    /\ [](/\ backendCalls <= Iterations
          /\ modelCalls <= 2 * Iterations + 1
          /\ lastCall.raises => pc # lastCall.node)

\* a run of two iterations ended after two backend calls, one of them
\* failed, and five model calls
C27_Witness ==
    /\ pc = "END"
    /\ Iterations = 2
    /\ backendCalls = 2
    /\ backendRaises = 1
    /\ modelCalls = 5

(***************************************************************************)
(* What each step of the loop changes.                                     *)
(***************************************************************************)
\* seq' is seq with one entry appended
AppendsOne(seq, after) ==
    /\ Len(after) = Len(seq) + 1
    /\ SubSeq(after, 1, Len(seq)) = seq

\* C28: research_topic never changes; web_research_results and
\* sources_gathered change only in web_research, and only by one entry
\* appended at the end; research_loop_count changes only in web_research;
\* summarize_sources changes only running_summary; generate_query and
\* reflect_on_summary change only search_query
C28_Frame ==
    [][/\ research_topic' = research_topic
       /\ web_research_results' # web_research_results =>
              (pc = "web_research"
                   /\ AppendsOne(web_research_results, web_research_results'))
       /\ sources_gathered' # sources_gathered =>
              (pc = "web_research"
                   /\ AppendsOne(sources_gathered, sources_gathered'))
       /\ research_loop_count' # research_loop_count => pc = "web_research"
       /\ pc = "summarize_sources" =>
              UNCHANGED <<research_topic, search_query, web_research_results,
                          sources_gathered, research_loop_count, success,
                          sources, error_message>>
       /\ pc \in {"generate_query", "reflect_on_summary"} =>
              UNCHANGED <<research_topic, web_research_results,
                          sources_gathered, research_loop_count,
                          running_summary, success, sources, error_message>>
      ]_vars

\* the second iteration of a run has appended its entries after those of
\* the first, and each of the four loop steps has changed its field
C28_Witness ==
    /\ pc = "route_research"
    /\ research_loop_count = 2
    /\ sources_gathered = <<ErrorFetchingSources, UrlA>>
    /\ Len(web_research_results) = 2
    /\ running_summary = Str(LongSummary)
    /\ search_query = Str(Q1)

(***************************************************************************)
(* Properties of whole runs.                                               *)
(***************************************************************************)
\* every backend call of the run succeeded and returned one URL, no URL
\* twice, and the summary is longer than 50 characters
HappyPath ==
    /\ Len(backendResults) > 0
    /\ \A i \in 1..Len(backendResults) :
          ~backendResults[i].raises /\ Len(backendResults[i].results) = 1
    /\ \A i, j \in 1..Len(backendResults) :
          i < j => backendResults[i].results[1].url
                       # backendResults[j].results[1].url
    /\ SummaryPasses(running_summary)

\* C29: on the happy path finalize_summary yields success = TRUE, sources
\* equal to the URLs of the backend calls, one per call in the order of the
\* calls and none twice, and error_message = None
C29_HappyPathOutcome ==
    [][(pc = "finalize_summary" /\ HappyPath) =>
          /\ success' = TRUE
          /\ sources' = [i \in 1..Len(backendResults) |->
                            backendResults[i].results[1].url]
          /\ \A i, j \in 1..Len(sources') : i < j => sources'[i] # sources'[j]
          /\ error_message' = None
          /\ pc' = "END"
      ]_vars

\* the run with three backend calls, each with its own URL, has ended
C29_Witness ==
    /\ pc = "END"
    /\ Iterations = 3
    /\ backendCalls = 3
    /\ backendRaises = 0
    /\ sources_gathered = <<UrlA, UrlB, UrlC>>
    /\ sources = <<UrlA, UrlB, UrlC>>
    /\ success
    /\ error_message = None

\* C30: when a web_research step of the run hit a backend error, the
\* Sources section of the report holds the sentinel line exactly once,
\* however many steps failed, sources does not hold the sentinel, and the
\* run ends at END with no exception
C30_SentinelVisible ==
    [][(pc = "finalize_summary" /\ backendRaises >= 1) =>
          LET section == SourcesSection(running_summary, running_summary')
              lines == SplitLines(section)
          IN /\ Cardinality({k \in 1..Len(lines) :
                                lines[k] = ErrorFetchingSources}) = 1
             /\ ErrorFetchingSources \notin Elements(sources')
             /\ raised' = "none"
             /\ pc' = "END"
      ]_vars

\* a run whose two web_research steps both failed has ended with a report
\* that lists the sentinel once
C30_Witness ==
    /\ pc = "END"
    /\ backendRaises = 2
    /\ sources_gathered = <<ErrorFetchingSources, ErrorFetchingSources>>
    /\ sources = <<>>
    /\ raised = "none"
    /\ running_summary =
           Str(SummaryHeader \o LongSummary \o SourcesHeader
               \o ErrorFetchingSources)

(***************************************************************************)
(* Properties of the service boundary.                                     *)
(***************************************************************************)
TimeoutWord == <<"t","i","m","e","o","u","t">>

\* C22: when the deadline expires or an exception leaves the graph,
\* run_research answers a normal response with success = FALSE, summary =
\* None, sources = [] and an error_message that is a text, holding
\* "timeout" for the deadline and starting with "Internal error: " for an
\* exception; what the run had built is not in the response; and a run that
\* ended with an exception is always answered
C22_BoundaryFailure ==
    /\ []((pc = "RESPONDED" /\ raised # "none") =>
             /\ response.status = 200
             /\ response.success = FALSE
             /\ response.summary = None
             /\ response.sources = <<>>
             /\ IsStr(response.error_message)
             /\ raised = "TimeoutError" =>
                    Find(response.error_message.v, TimeoutWord) > 0
             /\ raised # "TimeoutError" =>
                    StartsWith(response.error_message.v, InternalErrorPrefix))
    /\ [][pc = "FAILED" => (pc' = "RESPONDED" /\ response'.status = 200)]_vars

\* the deadline expired after the run had gathered a source and a summary
C22_Witness ==
    /\ pc = "RESPONDED"
    /\ raised = "TimeoutError"
    /\ sources_gathered = <<UrlA>>
    /\ running_summary = Str(LongSummary)
    /\ response.summary = None
    /\ response.sources = <<>>

\* C23: every response to an accepted request has error_message = None when
\* success is TRUE, and when success is FALSE an error_message that is
\* "Failed to generate summary", "No sources found", the timeout message,
\* or a text starting with "Internal error: "
C23_ErrorVocabulary ==
    pc = "RESPONDED" =>
        /\ response.status = 200
        /\ response.success \in BOOLEAN
        /\ response.success => response.error_message = None
        /\ ~response.success =>
               /\ IsStr(response.error_message)
               /\ \/ response.error_message.v
                         \in {FailedToGenerateSummary, NoSourcesFound,
                              TimeoutMessage}
                  \/ StartsWith(response.error_message.v, InternalErrorPrefix)

\* a run that ended without a URL was answered with "No sources found"
C23_Witness ==
    /\ pc = "RESPONDED"
    /\ raised = "none"
    /\ ~response.success
    /\ response.error_message = Str(NoSourcesFound)

\* C24: a request whose topic is empty or missing is answered with a
\* validation error, and the graph is never invoked for it: no node runs
\* and no model or backend call is made
C24_RejectedRequest ==
    (TopicField \notin DOMAIN request \/ request[TopicField] = Str(<<>>)) =>
        /\ pc \in {"REQUEST", "REJECTED"}
        /\ trace = <<>>
        /\ modelCalls = 0
        /\ backendCalls = 0
        /\ research_topic = <<>>
        /\ pc = "REJECTED" => response = ValidationErrorResponse

\* the request with an empty topic has been rejected
C24_Witness ==
    /\ pc = "REJECTED"
    /\ request = (TopicField :> Str(<<>>))
    /\ response.status = 422

(***************************************************************************)
(* C25.  Configuration.from_runnable_config resolves every field by        *)
(* priority: the explicit configurable value if one is given, otherwise    *)
(* the environment value if one is set, otherwise the field's default; an  *)
(* explicit value is never overridden by the environment.                  *)
(***************************************************************************)
\* a value is given for the field in the configurable dict
ExplicitGiven(name) == name \in DOMAIN config /\ config[name] # None

\* the text the environment holds for the field, None when it holds none
EnvironmentValue(name) ==
    IF env_name_of(name) # None /\ env_name_of(name).v \in DOMAIN environ
    THEN Str(environ[env_name_of(name).v])
    ELSE IF Upper(name) \in DOMAIN environ
    THEN Str(environ[Upper(name)])
    ELSE None

\* the value the priority order names for the field
ByPriority(name) ==
    IF ExplicitGiven(name) THEN config[name]
    ELSE IF EnvironmentValue(name) # None
    THEN Validate(FieldType[name], EnvironmentValue(name)).value
    ELSE FieldDefault[name]

\* C25: every field of a resolved configuration holds the explicit value
\* when one is given, else the environment's value when one is set, else
\* the default
C25_ConfigPriority ==
    pc = "CONFIGURED" =>
        \A i \in 1..Len(model_fields) :
            FieldOf(configuration, model_fields[i]) = ByPriority(model_fields[i])

(***************************************************************************)
(* C26.  Runs executing concurrently share no mutable state: in every      *)
(* interleaving of the steps of two runs, each run's state and outcome are *)
(* what the run produces alone with the same model and backend responses.  *)
(***************************************************************************)
\* the run either stays as it is or takes one step of the graph on its own
\* state with one of the answers it can get
StepsAlone(before, after) ==
    \/ after = before
    \/ \E input \in Inputs(before) : after = StepRun(before, input)

\* C26: every step of the interleaving is, for each of the two runs, a step
\* of that run alone or no step at all, so each run's states and outcome
\* are those of the run executed alone with the same responses
C26_Isolation ==
    [][/\ StepsAlone(RunRecord, RunRecord')
       /\ StepsAlone(other, other')]_vars

\* both runs ended, interleaved, with different outcomes
C26_Witness ==
    /\ pc = "END"
    /\ other.pc = "END"
    /\ success
    /\ sources = <<UrlA>>
    /\ ~other.success
    /\ other.sources = <<UrlB>>
    /\ other.research_topic # research_topic

(***************************************************************************)
(* C31.  The two extraction modes keep an identical fallback contract.     *)
(***************************************************************************)
\* the value the contract names for a model output: the fallback when the
\* requested field is missing or empty, the field's value otherwise
ContractValue(object, field, fallback_query) ==
    IF field \notin DOMAIN object \/ object[field] = Str(<<>>)
    THEN fallback_query
    ELSE object[field]

\* C31: for the same model output, tool-call mode and JSON mode return the
\* same value: the fallback when the requested field is missing or empty,
\* and the field's value when it is non-empty
C31_SameContract ==
    pc = "EXTRACTED" =>
        /\ response[TRUE] = response[FALSE]
        /\ response[TRUE] =
              Returned(ContractValue(request.object, request.field,
                                     FallbackQuery(State)))

(***************************************************************************)
(* C32.  A successful SUMMARIZE: the summary is the model's output, and    *)
(* the model is given the last research_results entry, with the existing   *)
(* summary as prior context.                                               *)
(***************************************************************************)
\* the step was a summarize_sources whose model call succeeded
SummarizeSucceeded ==
    /\ lastCall'.node = "summarize_sources"
    /\ lastCall'.kind = "model"
    /\ ~lastCall'.raises

\* the model's output, with the reasoning trace stripped when the flag is on
ModelOutput ==
    IF config.strip_thinking_tokens
    THEN Str(strip_thinking_tokens(lastCall'.resp.content))
    ELSE Str(lastCall'.resp.content)

LastEntry == web_research_results[Len(web_research_results)]

\* C32 as stated: the existing summary is given as prior context if and
\* only if a summary is already set
C32_Original ==
    [][SummarizeSucceeded =>
          /\ running_summary' = ModelOutput
          /\ request' =
                Str(IF running_summary # None
                    THEN UpdateMessage(running_summary.v, LastEntry,
                                       research_topic)
                    ELSE CreateMessage(LastEntry, research_topic))]_vars

\* C32 (amended): after a successful model call in summarize_sources the
\* summary is exactly the model's output (stripped when the flag is on) in
\* place of the previous one, and the model is given only the last
\* research_results entry, plus the existing summary as prior context if
\* and only if a summary is set and is not the empty text
C32_SummarizeSuccess ==
    [][SummarizeSucceeded =>
          /\ running_summary' = ModelOutput
          /\ request' =
                Str(IF running_summary # None /\ running_summary # Str(<<>>)
                    THEN UpdateMessage(running_summary.v, LastEntry,
                                       research_topic)
                    ELSE CreateMessage(LastEntry, research_topic))]_vars

\* a second summarize_sources replaced a summary by a different output,
\* after being given the second entry and the summary
C32_Witness ==
    /\ lastCall.node = "summarize_sources"
    /\ ~lastCall.raises
    /\ Len(web_research_results) = 2
    /\ web_research_results[1] # web_research_results[2]
    /\ running_summary = Str(LongSummary)
    /\ config.strip_thinking_tokens
    /\ lastCall.resp.content # LongSummary
    /\ request = Str(UpdateMessage(ShortSummary, web_research_results[2],
                                   research_topic))

(***************************************************************************)
(* C33.  The query dispatched to the backend in iteration 1 is the one     *)
(* produced by generate_query, in every later iteration the one produced   *)
(* by the reflect_on_summary of the iteration before; search_query is      *)
(* written by these two steps and by no other.                             *)
(***************************************************************************)
\* the query the extractor makes of the model's answer in a query node
ProducedQuery(node, resp) ==
    generate_search_query_with_structured_output(
        config, resp, FallbackQuery(State),
        RequestedField(node), RequestedField(node)).search_query

\* the step is a web_research that calls the backend
Dispatches == pc = "web_research" /\ lastCall'.kind = "backend"

\* the step is a query node that returns
ProducesQuery == pc \in QueryNodes /\ pc' # "FAILED"

\* C33: a query node that returns stores the query it produced in
\* search_query and no other step writes search_query; web_research
\* dispatches search_query, and it runs right after generate_query in
\* iteration 1 and right after the reflect_on_summary of the iteration
\* before (and its routing) in every later iteration
C33_QueryFlow ==
    [][/\ ProducesQuery => search_query' = ProducedQuery(pc, lastCall'.resp)
       /\ pc \notin QueryNodes => search_query' = search_query
       /\ Dispatches =>
             /\ lastCall'.query = search_query
             /\ IF research_loop_count = 0
                THEN trace = <<"generate_query">>
                ELSE /\ Len(trace) >= 2
                     /\ trace[Len(trace)] = "route_research"
                     /\ trace[Len(trace) - 1] = "reflect_on_summary"]_vars

\* the second iteration dispatched the follow-up query of the first
\* reflect_on_summary, which differs from the fallback
C33_Witness ==
    /\ lastCall.node = "web_research"
    /\ lastCall.kind = "backend"
    /\ research_loop_count = 2
    /\ lastCall.query = Str(Q1)
    /\ trace[Len(trace) - 2] = "reflect_on_summary"

(***************************************************************************)
(* C34.  sources_gathered and web_research_results correspond 1:1 by      *)
(* index: both entries of an index come from the same web_research step.   *)
(***************************************************************************)
\* the entry is the failure marker of sources_gathered
IsSentinel(entry) == entry = ErrorFetchingSources

\* the entry is a failure diagnostic of web_research_results
IsDiagnostic(entry) == StartsWith(entry, SearchFailedPrefix)

\* C34: the two lists have one entry per web_research step, and at every
\* index the source entry is the failure sentinel exactly when the result
\* entry is a "Search failed: ..." diagnostic, which is exactly when the
\* backend call of that step failed
C34_Correspondence ==
    /\ Len(sources_gathered) = Len(web_research_results)
    /\ Len(sources_gathered) = Len(backendResults)
    /\ \A i \in 1..Len(sources_gathered) :
          /\ IsSentinel(sources_gathered[i]) <=> IsDiagnostic(web_research_results[i])
          /\ IsSentinel(sources_gathered[i]) <=> backendResults[i].raises

\* a failed step followed by a step with a hit
C34_Witness ==
    /\ Len(sources_gathered) = 2
    /\ IsSentinel(sources_gathered[1])
    /\ IsDiagnostic(web_research_results[1])
    /\ ~IsSentinel(sources_gathered[2])
    /\ ~IsDiagnostic(web_research_results[2])
    /\ Len(backendResults[2].results) > 0

(***************************************************************************)
(* C35.  Configuration.from_runnable_config of the Gemini researcher: an   *)
(* explicit configurable value wins over the environment variable of the   *)
(* upper-cased name, which wins over the default.                          *)
(***************************************************************************)
\* the value the priority order names for a field of the Gemini researcher
GeminiByPriority(name) ==
    IF name \in DOMAIN config /\ config[name] # None THEN config[name]
    ELSE IF Upper(name) \in DOMAIN environ
    THEN Validate(gemini_FieldType[name], Str(environ[Upper(name)])).value
    ELSE gemini_FieldDefault[name]

\* C35: every field of a resolved Gemini configuration holds the explicit
\* value when one is given, else the value of the environment variable of
\* the upper-cased name when it is set, else the default
C35_GeminiPriority ==
    pc = "CONFIGURED" =>
        \A i \in 1..Len(gemini_model_fields) :
            gemini_FieldOf(configuration, gemini_model_fields[i])
                = GeminiByPriority(gemini_model_fields[i])

C37_AllSummariesFail ==
    /\ Len(SummaryGenerationFailed) <= SummaryMinLen
    /\ (pc = "END" /\ ~summarized) =>
          /\ ~success
          /\ error_message = Str(FailedToGenerateSummary)

\* a run ended with URLs gathered after both of its summarize_sources
\* steps failed
C37_Witness ==
    /\ pc = "END"
    /\ ~summarized
    /\ Cardinality({i \in 1..Len(trace) : trace[i] = "summarize_sources"}) = 2
    /\ modelCalls >= 2
    /\ Len(sources) > 0
    /\ ~success

(***************************************************************************)
(* C38.  reflect_on_summary runs once in every iteration, the last one     *)
(* included, and the follow-up query of the last reflection is never       *)
(* dispatched.                                                             *)
(***************************************************************************)
Reflections ==
    Cardinality({i \in 1..Len(trace) : trace[i] = "reflect_on_summary"})

\* the position of the last run of a node in the trace, 0 when it never ran
LastRun(node) ==
    IF \E i \in 1..Len(trace) : trace[i] = node
    THEN CHOOSE i \in 1..Len(trace) :
            /\ trace[i] = node
            /\ \A j \in (i + 1)..Len(trace) : trace[j] # node
    ELSE 0

\* C38: in every state the reflections are as many as the iterations, or
\* one fewer while an iteration is under way; once the loop is left there
\* are as many reflections as iterations and as backend calls, and no
\* web_research follows the last reflection, so its query is not dispatched
C38_ReflectEachIteration ==
    /\ Reflections <= Iterations
    /\ Iterations <= Reflections + 1
    /\ pc \in {"finalize_summary", "END"} =>
          /\ Iterations >= 1
          /\ Reflections = Iterations
          /\ backendCalls = Iterations
          /\ LastRun("web_research") < LastRun("reflect_on_summary")

\* a run of two iterations ended: two reflections, the second of which
\* produced the follow-up query that is still in search_query
C38_Witness ==
    /\ pc = "END"
    /\ Iterations = 2
    /\ Reflections = 2
    /\ backendCalls = 2
    /\ search_query = Str(Q1)
    /\ trace[LastRun("reflect_on_summary") + 1] = "route_research"

(***************************************************************************)
(* C39.  For a run that completes without timeout or exception, the        *)
(* service response carries the outcome of finalize_summary unchanged.     *)
(***************************************************************************)
\* C39: the response to a run that returned has the success, sources and
\* error_message that finalize_summary returned, and its summary is the
\* two-section report of finalize_summary, a text also when success is
\* false
C39_ResponseIsOutcome ==
    (pc = "RESPONDED" /\ raised = "none") =>
        /\ response.status = 200
        /\ response.success = success
        /\ response.sources = sources
        /\ response.error_message = error_message
        /\ response.summary = running_summary
        /\ IsStr(response.summary)
        /\ StartsWith(response.summary.v, SummaryHeader)
        /\ Find(response.summary.v, SourcesHeader) > 0

\* a run without success was answered with its report and its reason
C39_Witness ==
    /\ pc = "RESPONDED"
    /\ raised = "none"
    /\ ~response.success
    /\ response.error_message = Str(NoSourcesFound)
    /\ IsStr(response.summary)
    /\ Find(response.summary.v, LongSummary) > 0

(***************************************************************************)
(* C40.  Every element of sources begins with "http", has no leading or    *)
(* trailing whitespace, and is the trimmed form of a line of an entry of   *)
(* sources_gathered.                                                       *)
(***************************************************************************)
\* the lines of the entries of sources_gathered
GatheredLines ==
    UNION {Elements(SplitLines(sources_gathered[i])) :
              i \in 1..Len(sources_gathered)}

\* C40: after finalize_summary every element of sources starts with
\* "http", equals its own trimmed form, and is the trimmed form of some
\* line of some entry of sources_gathered
C40_UrlsWellFormed ==
    pc = "END" =>
        \A k \in 1..Len(sources) :
            /\ StartsWith(sources[k], HttpPrefix)
            /\ Strip(sources[k]) = sources[k]
            /\ \E line \in GatheredLines : Strip(line) = sources[k]

\* the finalizer emitted the trimmed form of a URL that was gathered with a
\* leading space, next to lines that are no URLs
C40_Witness ==
    /\ pc = "END"
    /\ sources_gathered = <<SpacedUrlA, UrlC \o <<"\r">>>>
    /\ sources = <<UrlA, UrlC>>
    /\ UrlA \notin GatheredLines
    /\ UrlC \notin GatheredLines

====
